---- MODULE Spec2Model ----
(***************************************************************************)
(* Model of the Dynadot API3 JSON client (src/src/services/dynadot-client.ts) *)
(* DynadotClient.call builds a GET request, runs it under a deadline timer, *)
(* classifies transport failures and inspects the response envelope.       *)
(* Around it: the configuration loader and the start of main, and the tool *)
(* handlers and resource readers that turn an outcome into a reply.        *)
(***************************************************************************)
EXTENDS Integers, Sequences, FiniteSets, TLC

\* ------------------------------------------------------------------------
\* Bounds of the model
\* ------------------------------------------------------------------------
NumCalls == 2
MaxLen == 3
MaxParams == 2
MaxKeys == 2

CallIds == 1..NumCalls

\* ------------------------------------------------------------------------
\* JavaScript values, tagged by their typeof
\* ------------------------------------------------------------------------
JsUndefined == [t |-> "undefined"]
JsNull == [t |-> "null"]
JsStr(s) == [t |-> "string", s |-> s]
JsNum(n) == [t |-> "number", n |-> n]
JsBool(b) == [t |-> "boolean", b |-> b]
\* an object is its own properties as <<name, value>> pairs in insertion order
JsObj(entries) == [t |-> "object", entries |-> entries]
JsArr(items) == [t |-> "array", items |-> items]

\* ToBoolean: undefined, null, "", 0 and false are falsy
Truthy(v) ==
  CASE v.t = "undefined" -> FALSE
    [] v.t = "null" -> FALSE
    [] v.t = "string" -> v.s # ""
    [] v.t = "number" -> v.n # 0
    [] v.t = "boolean" -> v.b
    [] OTHER -> TRUE

HasKey(entries, k) == \E j \in 1..Len(entries) : entries[j][1] = k

IndexOfKey(entries, k) ==
  CHOOSE j \in 1..Len(entries) :
    entries[j][1] = k /\ \A h \in 1..(j - 1) : entries[h][1] # k

\* obj[k] = v on the entry list of an object: an existing property keeps its
\* position, a new one is appended
ObjSet(entries, k, v) ==
  IF HasKey(entries, k)
  THEN [entries EXCEPT ![IndexOfKey(entries, k)] = <<k, v>>]
  ELSE Append(entries, <<k, v>>)

\* { ...a, ...b } continued: every entry of b assigned onto a, in b's order
RECURSIVE Spread(_, _)
Spread(a, b) ==
  IF b = <<>> THEN a
  ELSE Spread(ObjSet(a, b[1][1], b[1][2]), Tail(b))

\* v.k and v?.k: the property value, undefined when there is none; v?.k is
\* undefined on null and undefined, and strings, numbers and arrays have no
\* property of the names the client reads
GetProp(v, k) ==
  IF v.t = "object" /\ HasKey(v.entries, k)
  THEN v.entries[IndexOfKey(v.entries, k)][2]
  ELSE JsUndefined

\* s.endsWith(suffix)
EndsWith(s, suffix) ==
  /\ Len(s) >= Len(suffix)
  /\ SubSeq(s, Len(s) - Len(suffix) + 1, Len(s)) = suffix

\* s.includes(sub)
Includes(s, sub) ==
  \E j \in 1..(Len(s) - Len(sub) + 1) : SubSeq(s, j, j + Len(sub) - 1) = sub

\* ------------------------------------------------------------------------
\* URLSearchParams: a list of <<name, value>> pairs
\* ------------------------------------------------------------------------
RECURSIVE DropName(_, _)
DropName(list, name) ==
  IF list = <<>> THEN <<>>
  ELSE IF list[1][1] = name THEN DropName(Tail(list), name)
  ELSE <<list[1]>> \o DropName(Tail(list), name)

\* searchParams.set(name, value): the first pair of that name takes the value
\* and the others are removed; without such a pair one is appended
SearchParamsSet(list, name, value) ==
  IF HasKey(list, name)
  THEN LET j == IndexOfKey(list, name)
       IN SubSeq(list, 1, j - 1) \o <<(<<name, value>>)>>
            \o DropName(SubSeq(list, j + 1, Len(list)), name)
  ELSE Append(list, <<name, value>>)

\* searchParams.has(name) and searchParams.getAll(name)
SearchParamsHas(list, name) == HasKey(list, name)

SearchParamsGetAll(list, name) ==
  LET keep(p) == p[1] = name
      kept == SelectSeq(list, keep)
  IN [j \in 1..Len(kept) |-> kept[j][2]]

\* ------------------------------------------------------------------------
\* Endpoint configuration
\* ------------------------------------------------------------------------
PROD_URL == "https://api.dynadot.com/api3.json"
SANDBOX_URL == "https://api-sandbox.dynadot.com/api3.json"
DefaultTimeoutMs == 30000

\* new DynadotClient(apiKey, sandbox, timeoutMs = 30_000)
Constructor(apiKey, sandbox) ==
  [apiKey |-> apiKey,
   baseUrl |-> IF sandbox THEN SANDBOX_URL ELSE PROD_URL,
   timeoutMs |-> DefaultTimeoutMs]

\* ------------------------------------------------------------------------
\* Request builder (the first part of call)
\* ------------------------------------------------------------------------
\* the loop with the test on "" left out
RECURSIVE SetParamsKeepingEmpty(_, _)
SetParamsKeepingEmpty(list, entries) ==
  IF entries = <<>> THEN list
  ELSE LET key == entries[1][1]
           value == entries[1][2]
       IN IF value # JsUndefined
          THEN SetParamsKeepingEmpty(SearchParamsSet(list, key, value.s), Tail(entries))
          ELSE SetParamsKeepingEmpty(list, Tail(entries))

\* the loop over Object.entries(params): undefined and "" are skipped
RECURSIVE SetParams(_, _)
SetParams(list, entries) ==
  IF entries = <<>> THEN list
  ELSE LET key == entries[1][1]
           value == entries[1][2]
       IN IF value # JsUndefined /\ value # JsStr("")
          THEN SetParams(SearchParamsSet(list, key, value.s), Tail(entries))
          ELSE SetParams(list, Tail(entries))

\* new URL(this.baseUrl) with the fields of lines 31-40 set on it
BuildUrl(c, command, params) ==
  LET withKey == SearchParamsSet(<<>>, "key", c.apiKey)
      withCommand == SearchParamsSet(withKey, "command", command)
  IN [base |-> c.baseUrl,
      searchParams |-> IF Truthy(params)
                       THEN SetParams(withCommand, params.entries)
                       ELSE withCommand]

\* ------------------------------------------------------------------------
\* Errors and outcomes of call
\* ------------------------------------------------------------------------
MkError(name, message) == [name |-> name, message |-> message]

Pending == [kind |-> "pending"]
Resolved(json) == [value |-> json, kind |-> "success"]
Rejected(error) == [kind |-> "failure", error |-> error]

\* String(v), as a template literal converts the value it embeds
RECURSIVE JoinItems(_)
TemplateString(v) ==
  CASE v.t = "string" -> v.s
    [] v.t = "number" -> ToString(v.n)
    [] v.t = "boolean" -> IF v.b THEN "true" ELSE "false"
    [] v.t = "null" -> "null"
    [] v.t = "undefined" -> "undefined"
    [] v.t = "array" -> JoinItems(v.items)
    [] OTHER -> "[object Object]"

JoinItems(items) ==
  IF items = <<>> THEN ""
  ELSE IF Len(items) = 1 THEN TemplateString(items[1])
  ELSE TemplateString(items[1]) \o "," \o JoinItems(Tail(items))

\* JSON.stringify(v) for the values a parsed body is made of (the strings of
\* the model need no escaping)
RECURSIVE JsonStringify(_)
RECURSIVE StringifyEntries(_)
RECURSIVE StringifyItems(_)
JsonStringify(v) ==
  CASE v.t = "string" -> "\"" \o v.s \o "\""
    [] v.t = "number" -> ToString(v.n)
    [] v.t = "boolean" -> IF v.b THEN "true" ELSE "false"
    [] v.t = "array" -> "[" \o StringifyItems(v.items) \o "]"
    [] v.t = "object" -> "{" \o StringifyEntries(v.entries) \o "}"
    [] OTHER -> "null"

StringifyEntries(entries) ==
  IF entries = <<>> THEN ""
  ELSE "\"" \o entries[1][1] \o "\":" \o JsonStringify(entries[1][2])
         \o (IF Len(entries) > 1 THEN "," ELSE "")
         \o StringifyEntries(Tail(entries))

StringifyItems(items) ==
  IF items = <<>> THEN ""
  ELSE JsonStringify(items[1])
         \o (IF Len(items) > 1 THEN "," ELSE "")
         \o StringifyItems(Tail(items))

TimeoutMessage(c, command) ==
  "Dynadot API request timed out after " \o ToString(c.timeoutMs)
    \o "ms: " \o command

HttpErrorMessage(status, statusText) ==
  "Dynadot API HTTP error: " \o ToString(status) \o " " \o statusText

\* the fallback chain with Message tried before Error
EnvelopeErrorTextMessageFirst(inner) ==
  IF Truthy(GetProp(inner, "Message")) THEN GetProp(inner, "Message")
  ELSE IF Truthy(GetProp(inner, "Error")) THEN GetProp(inner, "Error")
  ELSE JsStr(JsonStringify(inner))

\* inner.Error || inner.Message || JSON.stringify(inner)
EnvelopeErrorText(inner) ==
  IF Truthy(GetProp(inner, "Error")) THEN GetProp(inner, "Error")
  ELSE IF Truthy(GetProp(inner, "Message")) THEN GetProp(inner, "Message")
  ELSE JsStr(JsonStringify(inner))

ApiErrorMessage(inner) ==
  "Dynadot API error: " \o TemplateString(EnvelopeErrorText(inner))

\* ------------------------------------------------------------------------
\* Envelope check (the last part of call)
\* ------------------------------------------------------------------------
\* Object.keys(v) of a value that is not null or undefined
ObjectKeys(v) ==
  CASE v.t = "object" -> [j \in 1..Len(v.entries) |-> v.entries[j][1]]
    [] v.t = "array" -> [j \in 1..Len(v.items) |-> ToString(j - 1)]
    [] v.t = "string" -> [j \in 1..Len(v.s) |-> ToString(j - 1)]
    [] OTHER -> <<>>

IsResponseKey(k) == EndsWith(k, "Response")

\* the last key ending in Response instead of the first
FindLastResponseKey(keys) ==
  IF \E j \in 1..Len(keys) : IsResponseKey(keys[j])
  THEN JsStr(keys[CHOOSE j \in 1..Len(keys) :
                    /\ IsResponseKey(keys[j])
                    /\ \A h \in (j + 1)..Len(keys) : ~IsResponseKey(keys[h])])
  ELSE JsUndefined

\* keys.find((k) => k.endsWith("Response")): the first match, else undefined
FindResponseKey(keys) ==
  IF \E j \in 1..Len(keys) : IsResponseKey(keys[j])
  THEN JsStr(keys[CHOOSE j \in 1..Len(keys) :
                    /\ IsResponseKey(keys[j])
                    /\ \A h \in 1..(j - 1) : ~IsResponseKey(keys[h])])
  ELSE JsUndefined

\* the test with == in place of ===: the string "-1" equals the number -1
SignalsErrorLoosely(inner) ==
  \/ GetProp(inner, "ResponseCode") \in {JsNum(-1), JsStr("-1")}
  \/ GetProp(inner, "Status") = JsStr("error")

\* inner?.ResponseCode === -1 || inner?.Status === "error"
SignalsError(inner) ==
  \/ GetProp(inner, "ResponseCode") = JsNum(-1)
  \/ GetProp(inner, "Status") = JsStr("error")

\* the envelope check reading inner.ResponseCode without the optional chain:
\* a null under the wrapper key makes it throw
CheckEnvelopeUnchained(json) ==
  IF json.t \in {"null", "undefined"}
  THEN Rejected(MkError("TypeError", "Cannot convert undefined or null to object"))
  ELSE LET responseKey == FindResponseKey(ObjectKeys(json))
       IN IF Truthy(responseKey) /\ GetProp(json, responseKey.s).t \in {"null", "undefined"}
          THEN Rejected(MkError("TypeError",
                 "Cannot read properties of null (reading 'ResponseCode')"))
          ELSE IF Truthy(responseKey) /\ SignalsError(GetProp(json, responseKey.s))
          THEN Rejected(MkError("Error",
                                ApiErrorMessage(GetProp(json, responseKey.s))))
          ELSE Resolved(json)

\* the envelope check returning the wrapper's content instead of the body
CheckEnvelopeUnwrapping(json) ==
  IF json.t \in {"null", "undefined"}
  THEN Rejected(MkError("TypeError", "Cannot convert undefined or null to object"))
  ELSE LET responseKey == FindResponseKey(ObjectKeys(json))
       IN IF Truthy(responseKey) /\ SignalsError(GetProp(json, responseKey.s))
          THEN Rejected(MkError("Error",
                                ApiErrorMessage(GetProp(json, responseKey.s))))
          ELSE IF Truthy(responseKey) THEN Resolved(GetProp(json, responseKey.s))
          ELSE Resolved(json)

\* the code of call after `const json = await response.json()`
CheckEnvelope(json) ==
  IF json.t \in {"null", "undefined"}
  THEN Rejected(MkError("TypeError", "Cannot convert undefined or null to object"))
  ELSE LET responseKey == FindResponseKey(ObjectKeys(json))
       IN IF Truthy(responseKey) /\ SignalsError(GetProp(json, responseKey.s))
          THEN Rejected(MkError("Error",
                                ApiErrorMessage(GetProp(json, responseKey.s))))
          ELSE Resolved(json)

\* ------------------------------------------------------------------------
\* Configuration loader (config.ts) and the start of main
\* ------------------------------------------------------------------------
\* process.env: each variable is a string, or undefined when it is not set
Env(apiKey, sandbox) == [DYNADOT_API_KEY |-> apiKey, DYNADOT_SANDBOX |-> sandbox]

\* DYNADOT_SANDBOX === "true" || DYNADOT_SANDBOX === "1"
SandboxFlag(e) ==
  e.DYNADOT_SANDBOX = JsStr("true") \/ e.DYNADOT_SANDBOX = JsStr("1")

Returned(v) == [returned |-> v]
Thrown(error) == [thrown |-> error]
IsThrown(r) == "thrown" \in DOMAIN r

MissingKeyMessage ==
  "DYNADOT_API_KEY environment variable is required. "
    \o "Get your API key from https://www.dynadot.com/account/domain/setting/api.html"

\* loadConfig as the first config.ts of the sources has it: apiKey is
\* process.env.DYNADOT_API_KEY || ""
LoadConfigFallback(e) ==
  Returned([apiKey |-> IF Truthy(e.DYNADOT_API_KEY) THEN e.DYNADOT_API_KEY.s ELSE "",
            sandbox |-> SandboxFlag(e)])

\* loadConfig as the second config.ts of the sources has it: it throws when
\* the key is not set or empty
LoadConfigRequired(e) ==
  IF ~Truthy(e.DYNADOT_API_KEY)
  THEN Thrown(MkError("Error", MissingKeyMessage))
  ELSE Returned([apiKey |-> e.DYNADOT_API_KEY.s, sandbox |-> SandboxFlag(e)])

\* the sources hold both files; the build has one of them
LoadConfigVersions == {"fallback", "required"}
LoadConfig(version, e) ==
  IF version = "fallback" THEN LoadConfigFallback(e) ELSE LoadConfigRequired(e)

\* ------------------------------------------------------------------------
\* State: one client and the invocations of call made on it
\* ------------------------------------------------------------------------
VARIABLES
  client,     \* the DynadotClient: baseUrl, apiKey, timeoutMs
  pc,         \* where each invocation is: idle, awaitFetch, awaitBody, done
  method,     \* the client method the invocation came through, with its
              \* arguments
  command,    \* the command argument of the invocation
  params,     \* the params argument of the invocation
  url,        \* the URL the invocation built and requested
  timer,      \* its deadline timer: none, armed, fired, cleared
  aborted,    \* controller.signal.aborted
  exchange,   \* its HTTP exchange: none, inflight, streaming, complete,
              \* failed, aborted
  response,   \* the Response fetch resolved with, and the body it will carry
  jsonCalled, \* response.json() was called: the body is being read
  outcome,    \* how the promise returned by call settled
  sent,       \* the requests the invocation handed to fetch, in order
  elapsed,    \* timeoutMs have passed since the invocation armed its timer
  handler,    \* the tool handler or resource reader that made the invocation
  reply,      \* what that handler returned to the server
  env,        \* process.env: DYNADOT_API_KEY and DYNADOT_SANDBOX
  proc        \* where main is: starting, connecting, running, exited

\* the variables of the process around the client, untouched by call itself
around == <<handler, reply, env, proc>>

vars == <<client, pc, method, command, params, url, timer, aborted, exchange,
          response, jsonCalled, outcome, sent, elapsed, handler, reply, env, proc>>

NoMethod == [name |-> "none"]
NoUrl == [base |-> "", searchParams |-> <<>>]
NoResponse == [status |-> 0]
NoClient == [constructed |-> FALSE]
NoHandler == [kind |-> "none"]
NoReply == [returned |-> FALSE]

\* fetch(url.toString(), { method: "GET", signal })
Request(m, u) == [method |-> m, url |-> u]

\* what the remote end can answer: a status line and a body, the body either
\* text that JSON.parse accepts (given by the value it parses to) or not
JsonBody(json) == [json |-> json, parse |-> "ok"]
BadBody == [parse |-> "SyntaxError"]
MkResponse(status, statusText, body) ==
  [status |-> status, statusText |-> statusText, body |-> body]

\* the status test taking every status below 400 as a success
OkBelow400(r) == r.status >= 200 /\ r.status < 400

\* response.ok
Ok(r) == r.status >= 200 /\ r.status <= 299

ApiKeys == {"k3y"}

\* the environments of a server that is up: the key is set
RunningEnvs == {Env(JsStr(k), sb) : k \in ApiKeys, sb \in {JsUndefined, JsStr("true")}}

\* main up to `new DynadotClient(config.apiKey, config.sandbox)`
ClientOf(config) == Constructor(config.apiKey, config.sandbox)

\* the state of a server that has started: main has loaded the configuration,
\* made the client and connected the transport; no invocation yet
Init ==
  /\ env \in RunningEnvs
  /\ client = ClientOf(LoadConfigRequired(env).returned)
  /\ proc = "running"
  /\ sent = [i \in CallIds |-> <<>>]
  /\ elapsed = [i \in CallIds |-> FALSE]
  /\ handler = [i \in CallIds |-> NoHandler]
  /\ reply = [i \in CallIds |-> NoReply]
  /\ pc = [i \in CallIds |-> "idle"]
  /\ method = [i \in CallIds |-> NoMethod]
  /\ command = [i \in CallIds |-> ""]
  /\ params = [i \in CallIds |-> JsUndefined]
  /\ url = [i \in CallIds |-> NoUrl]
  /\ timer = [i \in CallIds |-> "none"]
  /\ aborted = [i \in CallIds |-> FALSE]
  /\ exchange = [i \in CallIds |-> "none"]
  /\ response = [i \in CallIds |-> NoResponse]
  /\ jsonCalled = [i \in CallIds |-> FALSE]
  /\ outcome = [i \in CallIds |-> Pending]

\* ------------------------------------------------------------------------
\* call(command, params)
\* ------------------------------------------------------------------------
\* from entry to the first await: the URL is built, the controller made, the
\* timer armed and fetch started; m is the client method that made the call
CallFrom(i, m, cmd, p) ==
  /\ pc[i] = "idle"
  /\ method' = [method EXCEPT ![i] = m]
  /\ command' = [command EXCEPT ![i] = cmd]
  /\ params' = [params EXCEPT ![i] = p]
  /\ url' = [url EXCEPT ![i] = BuildUrl(client, cmd, p)]
  /\ timer' = [timer EXCEPT ![i] = "armed"]
  /\ aborted' = [aborted EXCEPT ![i] = FALSE]
  /\ exchange' = [exchange EXCEPT ![i] = "inflight"]
  /\ pc' = [pc EXCEPT ![i] = "awaitFetch"]
  /\ sent' = [sent EXCEPT ![i] = Append(@, Request("GET", BuildUrl(client, cmd, p)))]
  /\ UNCHANGED <<client, response, jsonCalled, outcome, elapsed, around>>

\* the timer callback aborting through one controller shared by all the
\* invocations of the client
TimerFiresAbortingAll(i) ==
  /\ timer[i] = "armed"
  /\ timer' = [timer EXCEPT ![i] = "fired"]
  /\ aborted' = [j \in CallIds |-> aborted[j] \/ pc[j] # "idle"]
  /\ exchange' = [j \in CallIds |->
                    IF exchange[j] \in {"inflight", "streaming"} THEN "aborted"
                    ELSE exchange[j]]
  /\ elapsed' = [elapsed EXCEPT ![i] = TRUE]
  /\ UNCHANGED <<client, pc, method, command, params, url, response, jsonCalled, outcome, sent, around>>

\* the timer callback: controller.abort(); an exchange still in progress on
\* that signal is cancelled
TimerFires(i) ==
  /\ timer[i] = "armed"
  /\ timer' = [timer EXCEPT ![i] = "fired"]
  /\ aborted' = [aborted EXCEPT ![i] = TRUE]
  /\ exchange' = [exchange EXCEPT
                    ![i] = IF @ \in {"inflight", "streaming"} THEN "aborted" ELSE @]
  /\ elapsed' = [elapsed EXCEPT ![i] = TRUE]
  /\ UNCHANGED <<client, pc, method, command, params, url, response, jsonCalled, outcome, sent, around>>

\* timeoutMs go by after the timer was cleared, while the call still waits
\* for the body: no callback is left to run
DeadlinePasses(i) ==
  /\ pc[i] = "awaitBody"
  /\ timer[i] = "cleared"
  /\ ~elapsed[i]
  /\ elapsed' = [elapsed EXCEPT ![i] = TRUE]
  /\ UNCHANGED <<client, pc, method, command, params, url, timer, aborted, exchange,
                 response, jsonCalled, outcome, sent, around>>

\* a finally block that leaves the timer as it is
ClearTimeoutSkipped(t) == t

\* clearTimeout(timeoutId): disarms a timer that has not fired
ClearTimeout(t) == IF t = "armed" THEN "cleared" ELSE t

\* the catch block without the AbortError branch
CatchFetchErrorRethrowing(c, cmd, error) == Rejected(error)

\* the catch block, given the error fetch rejected with
CatchFetchError(c, cmd, error) ==
  IF error.name = "AbortError"
  THEN Rejected(MkError("Error", TimeoutMessage(c, cmd)))
  ELSE Rejected(error)

AbortError == MkError("AbortError", "This operation was aborted")

\* fetch rejects because the signal was aborted
FetchAborted(i) ==
  /\ pc[i] = "awaitFetch"
  /\ exchange[i] = "aborted"
  /\ timer' = [timer EXCEPT ![i] = ClearTimeout(@)]
  /\ outcome' = [outcome EXCEPT ![i] = CatchFetchError(client, command[i], AbortError)]
  /\ pc' = [pc EXCEPT ![i] = "done"]
  /\ UNCHANGED <<client, method, command, params, url, aborted, exchange, response, jsonCalled, sent, elapsed, around>>

NetworkErrors ==
  {MkError("TypeError", "fetch failed"),
   MkError("TypeError", "terminated")}

\* a catch block that sends the request once more after a first network
\* error
FetchFailsRetrying(i, error) ==
  /\ pc[i] = "awaitFetch"
  /\ exchange[i] = "inflight"
  /\ IF Len(sent[i]) < 2
     THEN /\ sent' = [sent EXCEPT ![i] = Append(@, @[1])]
          /\ UNCHANGED <<exchange, timer, outcome, pc>>
     ELSE /\ exchange' = [exchange EXCEPT ![i] = "failed"]
          /\ timer' = [timer EXCEPT ![i] = ClearTimeout(@)]
          /\ outcome' = [outcome EXCEPT ![i] = CatchFetchError(client, command[i], error)]
          /\ pc' = [pc EXCEPT ![i] = "done"]
          /\ UNCHANGED sent
  /\ UNCHANGED <<client, method, command, params, url, aborted, response, jsonCalled, elapsed, around>>

\* fetch rejects because the exchange could not be made
FetchFails(i, error) ==
  /\ pc[i] = "awaitFetch"
  /\ exchange[i] = "inflight"
  /\ exchange' = [exchange EXCEPT ![i] = "failed"]
  /\ timer' = [timer EXCEPT ![i] = ClearTimeout(@)]
  /\ outcome' = [outcome EXCEPT ![i] = CatchFetchError(client, command[i], error)]
  /\ pc' = [pc EXCEPT ![i] = "done"]
  /\ UNCHANGED <<client, method, command, params, url, aborted, response, jsonCalled, sent, elapsed, around>>

\* fetch resolves with the response r (status line and headers are in, the
\* body is still to come): finally clears the timer, then the status check,
\* then response.json() is called and awaited
FetchResolves(i, r) ==
  /\ pc[i] = "awaitFetch"
  /\ exchange[i] = "inflight"
  /\ exchange' = [exchange EXCEPT ![i] = "streaming"]
  /\ response' = [response EXCEPT ![i] = r]
  /\ timer' = [timer EXCEPT ![i] = ClearTimeout(@)]
  /\ IF ~Ok(r)
     THEN /\ outcome' = [outcome EXCEPT
               ![i] = Rejected(MkError("Error", HttpErrorMessage(r.status, r.statusText)))]
          /\ pc' = [pc EXCEPT ![i] = "done"]
          /\ UNCHANGED jsonCalled
     ELSE /\ jsonCalled' = [jsonCalled EXCEPT ![i] = TRUE]
          /\ pc' = [pc EXCEPT ![i] = "awaitBody"]
          /\ UNCHANGED outcome
  /\ UNCHANGED <<client, method, command, params, url, aborted, sent, elapsed, around>>

\* response.json() taking text that does not parse as an empty object
ParseBodyLenient(body) ==
  IF body.parse = "ok"
  THEN CheckEnvelope(body.json)
  ELSE CheckEnvelope(JsObj(<<>>))

\* what response.json() settles with once the whole body is in
ParseBody(body) ==
  IF body.parse = "ok"
  THEN CheckEnvelope(body.json)
  ELSE Rejected(MkError("SyntaxError", "Unexpected token in JSON"))

\* the end of call reading the response from a field of the client that the
\* invocation answered last has written, instead of from its own local
BodyArrivesOnSharedResponse(i) ==
  /\ pc[i] = "awaitBody"
  /\ exchange[i] = "streaming"
  /\ exchange' = [exchange EXCEPT ![i] = "complete"]
  /\ outcome' = [outcome EXCEPT
       ![i] = LET others == {j \in CallIds : j # i /\ pc[j] = "awaitBody"}
              IN IF others = {} THEN ParseBody(response[i].body)
                 ELSE ParseBody(response[CHOOSE j \in others : TRUE].body)]
  /\ pc' = [pc EXCEPT ![i] = "done"]
  /\ UNCHANGED <<client, method, command, params, url, timer, aborted, response, jsonCalled, sent, elapsed, around>>

\* the body has arrived: response.json() settles and call runs to its end
BodyArrives(i) ==
  /\ pc[i] = "awaitBody"
  /\ exchange[i] = "streaming"
  /\ exchange' = [exchange EXCEPT ![i] = "complete"]
  /\ outcome' = [outcome EXCEPT ![i] = ParseBody(response[i].body)]
  /\ pc' = [pc EXCEPT ![i] = "done"]
  /\ UNCHANGED <<client, method, command, params, url, timer, aborted, response, jsonCalled, sent, elapsed, around>>

\* the connection breaks while the body is read: response.json() rejects and
\* call lets the error through
BodyFails(i, error) ==
  /\ pc[i] = "awaitBody"
  /\ exchange[i] = "streaming"
  /\ exchange' = [exchange EXCEPT ![i] = "failed"]
  /\ outcome' = [outcome EXCEPT ![i] = Rejected(error)]
  /\ pc' = [pc EXCEPT ![i] = "done"]
  /\ UNCHANGED <<client, method, command, params, url, timer, aborted, response, jsonCalled, sent, elapsed, around>>

\* a direct call(command, params)
Call(i, cmd, p) == CallFrom(i, [name |-> "call"], cmd, p)

\* ------------------------------------------------------------------------
\* Client methods that fan a list out into indexed fields
\* ------------------------------------------------------------------------
\* list.forEach((d, i) => { params[`${prefix}${i}`] = d; }), from index i on
RECURSIVE ForEachIndexed(_, _, _, _)
ForEachIndexed(entries, prefix, list, i) ==
  IF i >= Len(list) THEN entries
  ELSE ForEachIndexed(ObjSet(entries, prefix \o ToString(i), list[i + 1]),
                      prefix, list, i + 1)

\* if (options?.name) params.field = value
SetIf(entries, cond, field, value) ==
  IF Truthy(cond) THEN ObjSet(entries, field, value) ELSE entries

SearchParamsOf(domains, options) ==
  LET p0 == ForEachIndexed(<<>>, "domain", domains, 0)
      p1 == SetIf(p0, GetProp(options, "showPrice"), "show_price", JsStr("1"))
      p2 == SetIf(p1, GetProp(options, "currency"), "currency", GetProp(options, "currency"))
      p3 == SetIf(p2, GetProp(options, "language"), "language", GetProp(options, "language"))
  IN JsObj(p3)

BulkRegisterParamsOf(domains, options) ==
  LET p0 == ForEachIndexed(<<>>, "domain", domains, 0)
      p1 == SetIf(p0, GetProp(options, "currency"), "currency", GetProp(options, "currency"))
      p2 == SetIf(p1, GetProp(options, "coupon"), "coupon", GetProp(options, "coupon"))
  IN JsObj(p2)

SetNameserversParamsOf(domain, nameservers) ==
  JsObj(ForEachIndexed(<<(<<"domain", domain>>)>>, "ns", nameservers, 0))

ListMethod(name, prefix, list) == [list |-> list, name |-> name, prefix |-> prefix]

Search(i, domains, options) ==
  CallFrom(i, ListMethod("search", "domain", domains), "search",
           SearchParamsOf(domains, options))

BulkRegister(i, domains, options) ==
  CallFrom(i, ListMethod("bulkRegister", "domain", domains), "bulk_register",
           BulkRegisterParamsOf(domains, options))

SetNameservers(i, domain, nameservers) ==
  CallFrom(i, ListMethod("setNameservers", "ns", nameservers), "set_ns",
           SetNameserversParamsOf(domain, nameservers))

\* ------------------------------------------------------------------------
\* Tool handlers and resource readers
\* ------------------------------------------------------------------------
\* the characters of a string as JSON.stringify writes them inside quotes
RECURSIVE EscapeChars(_)
EscapeChars(s) ==
  LET special(q) == SubSeq(s, q, q) \in {"\"", "\\", "\n"}
  IN IF \A q \in 1..Len(s) : ~special(q) THEN s
     ELSE LET at == CHOOSE q \in 1..Len(s) : special(q) /\ \A r \in 1..(q - 1) : ~special(r)
              c == SubSeq(s, at, at)
          IN SubSeq(s, 1, at - 1)
               \o (CASE c = "\"" -> "\\\""
                     [] c = "\\" -> "\\\\"
                     [] OTHER -> "\\n")
               \o EscapeChars(SubSeq(s, at + 1, Len(s)))

JsonQuote(s) == "\"" \o EscapeChars(s) \o "\""

\* JSON.stringify(v, null, 2), pad being the indentation of the line v is on
RECURSIVE JsonStringifyIndent(_, _)
RECURSIVE IndentEntries(_, _)
RECURSIVE IndentItems(_, _)
JsonStringifyIndent(v, pad) ==
  CASE v.t = "string" -> JsonQuote(v.s)
    [] v.t = "number" -> ToString(v.n)
    [] v.t = "boolean" -> IF v.b THEN "true" ELSE "false"
    [] v.t = "array" ->
         IF v.items = <<>> THEN "[]"
         ELSE "[\n" \o IndentItems(v.items, pad \o "  ") \o "\n" \o pad \o "]"
    [] v.t = "object" ->
         IF v.entries = <<>> THEN "{}"
         ELSE "{\n" \o IndentEntries(v.entries, pad \o "  ") \o "\n" \o pad \o "}"
    [] OTHER -> "null"

IndentEntries(entries, pad) ==
  IF entries = <<>> THEN ""
  ELSE pad \o JsonQuote(entries[1][1]) \o ": "
         \o JsonStringifyIndent(entries[1][2], pad)
         \o (IF Len(entries) > 1 THEN ",\n" ELSE "")
         \o IndentEntries(Tail(entries), pad)

IndentItems(items, pad) ==
  IF items = <<>> THEN ""
  ELSE pad \o JsonStringifyIndent(items[1], pad)
         \o (IF Len(items) > 1 THEN ",\n" ELSE "")
         \o IndentItems(Tail(items), pad)

\* error instanceof Error ? error.message : String(error); everything call
\* throws is an Error
CatchMessage(error) == error.message

TextContent(text) == [text |-> text, type |-> "text"]

\* the catch block of a tool handler without the isError property
ToolReplyUnmarked(prefix, o) ==
  IF o.kind = "success"
  THEN [content |-> <<TextContent(JsonStringifyIndent(o.value, ""))>>]
  ELSE [content |-> <<TextContent(prefix \o CatchMessage(o.error))>>]

\* what a tool handler returns, given how the awaited client method settled
ToolReply(prefix, o) ==
  IF o.kind = "success"
  THEN [content |-> <<TextContent(JsonStringifyIndent(o.value, ""))>>]
  ELSE [content |-> <<TextContent(prefix \o CatchMessage(o.error))>>,
        isError |-> TRUE]

ToolHandler(name, prefix, args) ==
  [name |-> name, kind |-> "tool", prefix |-> prefix, args |-> args]

\* the tools get_account_info and search_domain
GetAccountInfoTool == ToolHandler("get_account_info", "Failed to get account info: ", <<>>)
SearchDomainTool(domains, show_price, currency) ==
  ToolHandler("search_domain", "Domain search failed: ",
              [domains |-> domains, show_price |-> show_price, currency |-> currency])

\* the client methods the handlers call
GetAccountInfo(i) == CallFrom(i, [name |-> "getAccountInfo"], "account_info", JsUndefined)
GetAccountBalance(i) == CallFrom(i, [name |-> "getAccountBalance"], "get_account_balance", JsUndefined)
ListDomains(i) == CallFrom(i, [name |-> "listDomains"], "list_domain", JsUndefined)

\* the server hands a request to its handler h
EnterHandler(i, h) ==
  /\ proc = "running"
  /\ pc[i] = "idle"
  /\ handler[i] = NoHandler
  /\ handler' = [handler EXCEPT ![i] = h]
  /\ UNCHANGED <<client, pc, method, command, params, url, timer, aborted, exchange,
                 response, jsonCalled, outcome, sent, elapsed, reply, env, proc>>

\* the handler runs to its await: it calls its client method
HandlerCalls(i) ==
  /\ handler[i] # NoHandler
  /\ CASE handler[i].name = "search_domain" ->
            Search(i, handler[i].args.domains,
                   JsObj(<<(<<"showPrice", handler[i].args.show_price>>),
                           <<"currency", handler[i].args.currency>>>>))
       [] handler[i].name = "balance" -> GetAccountBalance(i)
       [] handler[i].name = "domains" -> ListDomains(i)
       [] OTHER -> GetAccountInfo(i)

ResourceContent(uri, text) == [text |-> text, uri |-> uri, mimeType |-> "application/json"]

\* the catch block of a resource reader putting the message between quotes
\* by hand instead of through JSON.stringify
ResourceReplyUnescaped(uri, o) ==
  IF o.kind = "success"
  THEN [contents |-> <<ResourceContent(uri, JsonStringifyIndent(o.value, ""))>>]
  ELSE [contents |-> <<ResourceContent(uri,
          "{\n  \"error\": \"" \o CatchMessage(o.error) \o "\"\n}")>>]

\* what a resource reader returns, given how the awaited client method settled
ResourceReply(uri, o) ==
  IF o.kind = "success"
  THEN [contents |-> <<ResourceContent(uri, JsonStringifyIndent(o.value, ""))>>]
  ELSE [contents |-> <<ResourceContent(uri,
          JsonStringifyIndent(JsObj(<<(<<"error", JsStr(CatchMessage(o.error))>>)>>), ""))>>]

ResourceHandler(name, uri) == [name |-> name, kind |-> "resource", uri |-> uri]

\* the resources dynadot://account, dynadot://balance and dynadot://domains
ResourceHandlers ==
  {ResourceHandler("account", "dynadot://account"),
   ResourceHandler("balance", "dynadot://balance"),
   ResourceHandler("domains", "dynadot://domains")}

\* the awaited method has settled: the handler returns from its try block or
\* from its catch block
HandlerReturns(i) ==
  /\ handler[i] # NoHandler
  /\ pc[i] = "done"
  /\ reply[i] = NoReply
  /\ reply' = [reply EXCEPT
       ![i] = IF handler[i].kind = "tool"
              THEN ToolReply(handler[i].prefix, outcome[i])
              ELSE ResourceReply(handler[i].uri, outcome[i])]
  /\ UNCHANGED <<client, pc, method, command, params, url, timer, aborted, exchange,
                 response, jsonCalled, outcome, sent, elapsed, handler, env, proc>>

\* ------------------------------------------------------------------------
\* Tool handlers that choose among client methods or await several
\* ------------------------------------------------------------------------
\* What a handler does next, given the outcomes of the client methods it has
\* awaited so far: it calls a client method, which calls call(command,
\* params), or it returns a reply
CallStep(name, cmd, p) == [name |-> name, command |-> cmd, params |-> p, do |-> "call"]
ReturnStep(r) == [reply |-> r, do |-> "return"]

\* return { content: [{ type: "text", text }], isError: true } ahead of any
\* client method
ErrorReply(text) == [content |-> <<TextContent(text)>>, isError |-> TRUE]

\* result = await client.method(...); return the result as indented JSON
AwaitAndReply(h, results, step) ==
  IF results = <<>> THEN step ELSE ReturnStep(ToolReply(h.prefix, results[1]))

\* manage_domain_push handing accept and reject to the client without a look
\* at push_id
ManageDomainPushUnchecked(h, results) ==
  AwaitAndReply(h, results,
    IF h.args.action = "list"
    THEN CallStep("getDomainPushRequest", "get_domain_push_request", JsUndefined)
    ELSE CallStep("setDomainPushRequest", "set_domain_push_request",
                  JsObj(<<(<<"push_id", h.args.push_id>>),
                          <<"action", JsStr(h.args.action)>>>>)))

\* manage_domain_push
ManageDomainPush(h, results) ==
  IF h.args.action = "list"
  THEN AwaitAndReply(h, results,
         CallStep("getDomainPushRequest", "get_domain_push_request", JsUndefined))
  ELSE IF ~Truthy(h.args.push_id)
  THEN ReturnStep(ErrorReply("push_id is required for accept/reject"))
  ELSE AwaitAndReply(h, results,
         CallStep("setDomainPushRequest", "set_domain_push_request",
                  JsObj(<<(<<"push_id", h.args.push_id>>),
                          <<"action", JsStr(h.args.action)>>>>)))

\* manage_backorders
ManageBackorders(h, results) ==
  CASE h.args.action = "add" ->
         IF ~Truthy(h.args.domain)
         THEN ReturnStep(ErrorReply("Domain is required for 'add' action"))
         ELSE AwaitAndReply(h, results,
                CallStep("addBackorderRequest", "add_backorder_request",
                         JsObj(<<(<<"domain", h.args.domain>>)>>)))
    [] h.args.action = "delete" ->
         IF ~Truthy(h.args.domain)
         THEN ReturnStep(ErrorReply("Domain is required for 'delete' action"))
         ELSE AwaitAndReply(h, results,
                CallStep("deleteBackorderRequest", "delete_backorder_request",
                         JsObj(<<(<<"domain", h.args.domain>>)>>)))
    [] OTHER ->
         AwaitAndReply(h, results,
           CallStep("listBackorderRequests", "backorder_request_list", JsUndefined))

\* placeBackorderAuctionBid(auctionId, amount, currency) and
\* buyExpiredCloseoutDomain(domain, currency): the parameters they build
PlaceBackorderAuctionBidParams(auctionId, amount, currency) ==
  JsObj(SetIf(<<(<<"auction_id", auctionId>>), <<"bid_amount", amount>>>>,
              currency, "currency", currency))
BuyExpiredCloseoutDomainParams(domain, currency) ==
  JsObj(SetIf(<<(<<"domain", domain>>)>>, currency, "currency", currency))

\* manage_backorder_auctions
ManageBackorderAuctions(h, results) ==
  CASE h.args.action = "list_open" ->
         AwaitAndReply(h, results,
           CallStep("getOpenBackorderAuctions", "get_open_backorder_auctions", JsUndefined))
    [] h.args.action = "list_closed" ->
         AwaitAndReply(h, results,
           CallStep("getClosedBackorderAuctions", "get_closed_backorder_auctions", JsUndefined))
    [] h.args.action = "details" ->
         IF ~Truthy(h.args.auction_id)
         THEN ReturnStep(ErrorReply("auction_id is required for 'details'"))
         ELSE AwaitAndReply(h, results,
                CallStep("getBackorderAuctionDetails", "get_backorder_auction_details",
                         JsObj(<<(<<"auction_id", h.args.auction_id>>)>>)))
    [] OTHER ->
         IF ~Truthy(h.args.auction_id) \/ ~Truthy(h.args.amount)
         THEN ReturnStep(ErrorReply("auction_id and amount are required for 'bid'"))
         ELSE AwaitAndReply(h, results,
                CallStep("placeBackorderAuctionBid", "place_backorder_auction_bid",
                         PlaceBackorderAuctionBidParams(h.args.auction_id, h.args.amount,
                                                        h.args.currency)))

\* buy_expired_domain
BuyExpiredDomain(h, results) ==
  IF h.args.action = "list"
  THEN AwaitAndReply(h, results,
         CallStep("getExpiredCloseoutDomains", "get_expired_closeout_domains", h.args.params))
  ELSE IF ~Truthy(h.args.domain)
  THEN ReturnStep(ErrorReply("domain is required for 'buy'"))
  ELSE AwaitAndReply(h, results,
         CallStep("buyExpiredCloseoutDomain", "buy_expired_closeout_domain",
                  BuyExpiredCloseoutDomainParams(h.args.domain, h.args.currency)))

\* delete_nameserver looking at host before domain
DeleteNameserverHostFirst(h, results) ==
  IF Truthy(h.args.host)
  THEN AwaitAndReply(h, results,
         CallStep("deleteNameserver", "delete_ns", JsObj(<<(<<"host", h.args.host>>)>>)))
  ELSE IF Truthy(h.args.domain)
  THEN AwaitAndReply(h, results,
         CallStep("deleteNameserverByDomain", "delete_ns_by_domain",
                  JsObj(<<(<<"domain", h.args.domain>>)>>)))
  ELSE ReturnStep(ErrorReply("Either host or domain is required"))

\* delete_nameserver
DeleteNameserver(h, results) ==
  IF Truthy(h.args.domain)
  THEN AwaitAndReply(h, results,
         CallStep("deleteNameserverByDomain", "delete_ns_by_domain",
                  JsObj(<<(<<"domain", h.args.domain>>)>>)))
  ELSE IF Truthy(h.args.host)
  THEN AwaitAndReply(h, results,
         CallStep("deleteNameserver", "delete_ns", JsObj(<<(<<"host", h.args.host>>)>>)))
  ELSE ReturnStep(ErrorReply("Either host or domain is required"))

\* set_domain_note moving the domain before it sets the note
SetDomainNoteFolderFirst(h, results) ==
  LET calls ==
        (IF h.args.folder # JsUndefined
         THEN <<CallStep("setFolder", "set_folder",
                         JsObj(<<(<<"domain", h.args.domain>>), <<"folder", h.args.folder>>>>))>>
         ELSE <<>>)
        \o
        (IF h.args.note # JsUndefined
         THEN <<CallStep("setNote", "set_note",
                         JsObj(<<(<<"domain", h.args.domain>>), <<"note", h.args.note>>>>))>>
         ELSE <<>>)
      values == [j \in 1..Len(results) |-> results[j].value]
  IN IF Len(results) < Len(calls) THEN calls[Len(results) + 1]
     ELSE ReturnStep(ToolReply(h.prefix,
            Resolved(IF Len(values) = 1 THEN values[1] ELSE JsArr(values))))

\* set_domain_note: the awaits of its try block in their order, then the
\* reply made of the results pushed
SetDomainNote(h, results) ==
  LET calls ==
        (IF h.args.note # JsUndefined
         THEN <<CallStep("setNote", "set_note",
                         JsObj(<<(<<"domain", h.args.domain>>), <<"note", h.args.note>>>>))>>
         ELSE <<>>)
        \o
        (IF h.args.folder # JsUndefined
         THEN <<CallStep("setFolder", "set_folder",
                         JsObj(<<(<<"domain", h.args.domain>>), <<"folder", h.args.folder>>>>))>>
         ELSE <<>>)
      values == [j \in 1..Len(results) |-> results[j].value]
  IN IF Len(results) < Len(calls) THEN calls[Len(results) + 1]
     ELSE ReturnStep(ToolReply(h.prefix,
            Resolved(IF Len(values) = 1 THEN values[1] ELSE JsArr(values))))

\* get_auction_details without a look at include_bids
GetAuctionDetailsAlone(h, results) ==
  AwaitAndReply(h, results,
    CallStep("getAuctionDetails", "get_auction_details",
             JsObj(<<(<<"auction_id", h.args.auction_id>>)>>)))

\* get_auction_details
GetAuctionDetails(h, results) ==
  IF results = <<>>
  THEN CallStep("getAuctionDetails", "get_auction_details",
                JsObj(<<(<<"auction_id", h.args.auction_id>>)>>))
  ELSE IF Truthy(h.args.include_bids)
  THEN IF Len(results) = 1
       THEN CallStep("getAuctionBids", "get_auction_bids",
                     JsObj(<<(<<"auction_id", h.args.auction_id>>)>>))
       ELSE ReturnStep(ToolReply(h.prefix,
              Resolved(JsObj(<<(<<"details", results[1].value>>),
                               <<"bids", results[2].value>>>>))))
  ELSE ReturnStep(ToolReply(h.prefix, results[1]))

\* { ...map, [field]: id }, the explicit argument written after the map
MergedParamsArgumentLast(field, id, map) == JsObj(ObjSet(map.entries, field, id))

\* { [field]: id, ...map }, the parameters of the client methods that take
\* an identifying argument and a map: setDnssec(domain, params) with the
\* field domain_name
MergedParams(field, id, map) == JsObj(Spread(<<(<<field, id>>)>>, map.entries))

\* set_dnssec without a look at clear
SetDnssecHandlerNeverClearing(h, results) ==
  LET p1 == SetIf(<<>>, h.args.flags, "flags", h.args.flags)
      p2 == SetIf(p1, h.args.algorithm, "algorithm", h.args.algorithm)
      p3 == SetIf(p2, h.args.public_key, "public_key", h.args.public_key)
  IN AwaitAndReply(h, results,
       CallStep("setDnssec", "set_dnssec",
                MergedParams("domain_name", h.args.domain, JsObj(p3))))

\* set_dnssec
SetDnssecHandler(h, results) ==
  IF Truthy(h.args.clear)
  THEN AwaitAndReply(h, results,
         CallStep("clearDnssec", "clear_dnssec", JsObj(<<(<<"domain", h.args.domain>>)>>)))
  ELSE LET p1 == SetIf(<<>>, h.args.flags, "flags", h.args.flags)
           p2 == SetIf(p1, h.args.algorithm, "algorithm", h.args.algorithm)
           p3 == SetIf(p2, h.args.public_key, "public_key", h.args.public_key)
       IN AwaitAndReply(h, results,
            CallStep("setDnssec", "set_dnssec",
                     MergedParams("domain_name", h.args.domain, JsObj(p3))))

\* the client methods that pass { [field]: id, ...map } to call
MergeMethods ==
  {[name |-> "setDns", command |-> "set_dns2", field |-> "domain"],
   [name |-> "setDnssec", command |-> "set_dnssec", field |-> "domain_name"],
   [name |-> "editContact", command |-> "edit_contact", field |-> "contact_id"],
   [name |-> "setWhoisContacts", command |-> "set_whois", field |-> "domain"],
   [name |-> "setEmailForward", command |-> "set_email_forward", field |-> "domain"]}

\* one of them called with the identifying argument id and the map
MergeCall(i, m, id, map) ==
  CallFrom(i, [name |-> m.name, field |-> m.field, id |-> id, map |-> map],
           m.command, MergedParams(m.field, id, map))

\* set_folder_settings
SetFolderSettings(h, results) ==
  AwaitAndReply(h, results,
    CallStep("call",
             IF h.args.setting_type = "clear" THEN "set_clear_folder_setting"
             ELSE "set_folder_" \o h.args.setting_type,
             MergedParams("folder_id", h.args.folder_id,
                          IF Truthy(h.args.params) THEN h.args.params ELSE JsObj(<<>>))))

\* getTldPrice(options): the parameters it builds; n.toString() is the
\* decimal text of the integer n
GetTldPriceParams(options) ==
  LET currency == GetProp(options, "currency")
      countPerPage == GetProp(options, "countPerPage")
      pageIndex == GetProp(options, "pageIndex")
      p1 == SetIf(<<>>, currency, "currency", currency)
      p2 == SetIf(p1, countPerPage, "count_per_page", JsStr(ToString(countPerPage.n)))
      p3 == SetIf(p2, pageIndex, "page_index", JsStr(ToString(pageIndex.n)))
  IN JsObj(p3)

\* get_tld_price
GetTldPriceHandler(h, results) ==
  AwaitAndReply(h, results,
    CallStep("getTldPrice", "tld_price",
             GetTldPriceParams(JsObj(<<(<<"currency", h.args.currency>>),
                                       <<"countPerPage", h.args.count_per_page>>,
                                       <<"pageIndex", h.args.page_index>>>>))))

\* what the handler h does next: an awaited client method that threw takes it
\* to its catch block, otherwise its try block goes on
ToolStep(h, results) ==
  IF results # <<>> /\ results[Len(results)].kind = "failure"
  THEN ReturnStep(ToolReply(h.prefix, results[Len(results)]))
  ELSE CASE h.name = "manage_domain_push" -> ManageDomainPush(h, results)
         [] h.name = "manage_backorders" -> ManageBackorders(h, results)
         [] h.name = "manage_backorder_auctions" -> ManageBackorderAuctions(h, results)
         [] h.name = "delete_nameserver" -> DeleteNameserver(h, results)
         [] h.name = "set_domain_note" -> SetDomainNote(h, results)
         [] h.name = "get_auction_details" -> GetAuctionDetails(h, results)
         [] h.name = "set_dnssec" -> SetDnssecHandler(h, results)
         [] h.name = "set_folder_settings" -> SetFolderSettings(h, results)
         [] h.name = "get_tld_price" -> GetTldPriceHandler(h, results)
         [] OTHER -> BuyExpiredDomain(h, results)

\* The request being served is request 1; the client methods its handler
\* awaits are the invocations 1, 2, ... of call, one after the other
Results == [j \in 1..Cardinality({i \in CallIds : pc[i] # "idle"}) |-> outcome[j]]
Running ==
  /\ handler[1] # NoHandler
  /\ reply[1] = NoReply
  /\ \A j \in CallIds : pc[j] \in {"idle", "done"}

\* the handler runs up to its next await: invocation i of call starts
ToolCalls(i) ==
  /\ Running
  /\ i = Len(Results) + 1
  /\ LET step == ToolStep(handler[1], Results)
     IN /\ step.do = "call"
        /\ CallFrom(i, [name |-> step.name], step.command, step.params)

\* the handler runs up to a return statement
ToolReturns ==
  /\ Running
  /\ LET step == ToolStep(handler[1], Results)
     IN /\ step.do = "return"
        /\ reply' = [reply EXCEPT ![1] = step.reply]
  /\ UNCHANGED <<client, pc, method, command, params, url, timer, aborted, exchange,
                 response, jsonCalled, outcome, sent, elapsed, handler, env, proc>>

\* ------------------------------------------------------------------------
\* Inputs
\* ------------------------------------------------------------------------
\* sequences over S of length 0..n
SeqsUpTo(S, n) == UNION {[1..m -> S] : m \in 0..n}

DistinctKeys(entries) ==
  \A a, b \in 1..Len(entries) : a # b => entries[a][1] # entries[b][1]

\* params objects: the names include the two the client sets itself, the
\* values include undefined and ""
ParamNames == {"key", "command", "domain", "folder_id"}
ParamValues == {JsUndefined, JsStr(""), JsStr("a.com"), JsStr("7")}
ParamObjects ==
  {JsObj(e) : e \in {s \in SeqsUpTo(ParamNames \X ParamValues, MaxParams) : DistinctKeys(s)}}
Commands == {"domain_info", "set_folder_dns2"}

\* list arguments, elements as the tool schemas admit them (any string)
DomainLists == SeqsUpTo({JsStr(""), JsStr("a.com"), JsStr("b.org")}, MaxLen)
NameserverLists == SeqsUpTo({JsStr(""), JsStr("ns1.x.net"), JsStr("ns2.x.net")}, MaxLen)
SearchOptions ==
  {JsUndefined,
   JsObj(<<(<<"showPrice", JsBool(TRUE)>>), <<"currency", JsStr("USD")>>>>),
   JsObj(<<(<<"showPrice", JsBool(FALSE)>>), <<"currency", JsUndefined>>>>)}
BulkRegisterOptions ==
  {JsUndefined,
   JsObj(<<(<<"currency", JsStr("USD")>>), <<"coupon", JsStr("")>>>>)}

\* the properties of a wrapper object that the envelope check and the
\* message read, each absent or present with a value that passes or fails
\* the test made on it
Field(k, v) == IF v = JsUndefined THEN <<>> ELSE <<(<<k, v>>)>>
ResponseCodes == {JsUndefined, JsNum(-1), JsNum(0), JsStr("-1")}
StatusValues == {JsUndefined, JsStr("error"), JsStr("success")}
ErrorValues == {JsUndefined, JsStr(""), JsStr("bad domain")}
MessageValues == {JsUndefined, JsNum(0), JsStr("try later")}
InnerObjects ==
  {JsObj(Field("ResponseCode", rc) \o Field("Status", st)
           \o Field("Error", er) \o Field("Message", ms)) :
     rc \in ResponseCodes, st \in StatusValues,
     er \in ErrorValues, ms \in MessageValues}
NonObjects == {JsNull, JsStr("error"), JsNum(-1), JsArr(<<JsStr("a.com")>>)}
ErrorEnvelope == JsObj(<<(<<"ResponseCode", JsNum(-1)>>), <<"Error", JsStr("bad domain")>>>>)
OkEnvelope == JsObj(<<(<<"ResponseCode", JsNum(0)>>), <<"Status", JsStr("success")>>>>)
BodyKeys == {"FooResponse", "Response", "ResponseData", "Data"}
PlainEntries ==
  {<<"FooResponse", ErrorEnvelope>>, <<"Response", OkEnvelope>>,
   <<"ResponseData", ErrorEnvelope>>, <<"Data", JsNull>>}

InsertAt(seq, at, e) == SubSeq(seq, 1, at - 1) \o <<e>> \o SubSeq(seq, at, Len(seq))

\* parsed JSON objects of n properties: any value under one of them, a plain
\* entry for each of the others
ObjectsOfSize(n) ==
  IF n = 0 THEN {JsObj(<<>>)}
  ELSE {JsObj(s) :
          s \in {t \in {InsertAt(q, at, e) :
                          e \in BodyKeys \X (InnerObjects \cup NonObjects),
                          q \in [1..(n - 1) -> PlainEntries],
                          at \in 1..n} : DistinctKeys(t)}}

JsonValues ==
  UNION {ObjectsOfSize(n) : n \in 0..MaxKeys}
    \cup {JsNull, JsNum(5), JsStr("OK"), JsArr(<<ErrorEnvelope>>)}

\* ------------------------------------------------------------------------
\* Specifications
\* ------------------------------------------------------------------------
\* The request builder alone: one call with any command and params
NextBuild == \E cmd \in Commands, p \in ParamObjects \cup {JsUndefined} : Call(1, cmd, p)
SpecBuild == Init /\ [][NextBuild]_vars

\* The list-valued client methods alone
NextList ==
  \/ \E d \in DomainLists, o \in SearchOptions : Search(1, d, o)
  \/ \E d \in DomainLists, o \in BulkRegisterOptions : BulkRegister(1, d, o)
  \/ \E ns \in NameserverLists : SetNameservers(1, JsStr("a.com"), ns)
SpecList == Init /\ [][NextList]_vars

\* One call answered 200 with any parseable body
NextEnvelope ==
  \/ Call(1, "domain_info", JsObj(<<(<<"domain", JsStr("a.com")>>)>>))
  \/ \E json \in JsonValues : FetchResolves(1, MkResponse(200, "OK", JsonBody(json)))
  \/ BodyArrives(1)
SpecEnvelope == Init /\ [][NextEnvelope]_vars

\* Concurrent calls on one client with every way an exchange can go
CallInputs ==
  {[command |-> "list_domain", params |-> JsUndefined],
   [command |-> "domain_info", params |-> JsObj(<<(<<"domain", JsStr("a.com")>>)>>)]}
StatusLines ==
  {<<200, "OK">>, <<201, "Created">>, <<300, "Multiple Choices">>,
   <<500, "Internal Server Error">>}
Bodies ==
  {JsonBody(JsObj(<<(<<"DomainInfoResponse", OkEnvelope>>)>>)),
   JsonBody(JsObj(<<(<<"DomainInfoResponse", ErrorEnvelope>>)>>)),
   BadBody}
Responses == {MkResponse(sl[1], sl[2], b) : sl \in StatusLines, b \in Bodies}

\* the steps of invocation i
Step(i) ==
  \/ \E in \in CallInputs : Call(i, in.command, in.params)
  \/ TimerFires(i)
  \/ FetchAborted(i)
  \/ \E e \in NetworkErrors : FetchFails(i, e)
  \/ \E r \in Responses : FetchResolves(i, r)
  \/ BodyArrives(i)
  \/ \E e \in NetworkErrors : BodyFails(i, e)

Next == \E i \in CallIds : Step(i)
Spec == Init /\ [][Next]_vars

\* One call under the scheduling of the event loop, with the clock going on
\* after the timer is cleared: a rejection of the fetch promise that is due is
\* delivered to the awaiting call
NextOne == Step(1) \/ DeadlinePasses(1)
SpecOneFair == Init /\ [][NextOne]_vars /\ WF_vars(FetchAborted(1))

\* One request served by a tool handler or a resource reader, with every way
\* its exchange can go
ToolHandlers ==
  {GetAccountInfoTool,
   SearchDomainTool(<<JsStr("a.com")>>, JsUndefined, JsUndefined),
   SearchDomainTool(<<JsStr("a.com"), JsStr("b.org")>>, JsBool(TRUE), JsStr("USD"))}
BareErrorEnvelope == JsObj(<<(<<"ResponseCode", JsNum(-1)>>)>>)
HandlerBodies ==
  {JsonBody(JsObj(<<(<<"AccountInfoResponse", OkEnvelope>>), <<"Note", JsStr("say \"hi\"")>>>>)),
   JsonBody(JsObj(<<(<<"AccountInfoResponse", ErrorEnvelope>>)>>)),
   JsonBody(JsObj(<<(<<"AccountInfoResponse", BareErrorEnvelope>>)>>)),
   JsonBody(JsArr(<<JsNum(5), JsObj(<<>>)>>)),
   JsonBody(JsNull),
   BadBody}
HandlerResponses ==
  {MkResponse(200, "OK", b) : b \in HandlerBodies}
    \cup {MkResponse(500, "Internal Server Error", BadBody)}

NextHandlers ==
  \/ \E h \in ToolHandlers \cup ResourceHandlers : EnterHandler(1, h)
  \/ HandlerCalls(1)
  \/ TimerFires(1)
  \/ FetchAborted(1)
  \/ \E e \in NetworkErrors : FetchFails(1, e)
  \/ \E r \in HandlerResponses : FetchResolves(1, r)
  \/ BodyArrives(1)
  \/ \E e \in NetworkErrors : BodyFails(1, e)
  \/ HandlerReturns(1)
SpecHandlers == Init /\ [][NextHandlers]_vars

\* One request served by a handler that chooses among client methods or
\* awaits several, with the ways each exchange can go
\* z.string().optional(): absent, empty or the text s
Optional(s) == {JsUndefined, JsStr(""), JsStr(s)}
Tools ==
  {ToolHandler("manage_domain_push", "Domain push operation failed: ",
               [action |-> a, push_id |-> id]) :
     a \in {"list", "accept", "reject"}, id \in Optional("17")}
  \cup
  {ToolHandler("manage_backorders", "Backorder operation failed: ",
               [domain |-> d, action |-> a]) :
     a \in {"add", "delete", "list"}, d \in Optional("a.com")}
  \cup
  {ToolHandler("manage_backorder_auctions", "Backorder auction operation failed: ",
               [currency |-> c, action |-> a, amount |-> m, auction_id |-> id]) :
     a \in {"list_open", "list_closed", "details", "bid"}, id \in Optional("17"),
     m \in Optional("25"), c \in Optional("USD")}
  \cup
  {ToolHandler("buy_expired_domain", "Expired domain operation failed: ",
               [params |-> p, domain |-> d, currency |-> c, action |-> a]) :
     a \in {"list", "buy"}, d \in Optional("a.com"), c \in Optional("USD"),
     p \in {JsUndefined, JsObj(<<(<<"tld", JsStr("com")>>)>>)}}
  \cup
  {ToolHandler("delete_nameserver", "Failed to delete nameserver: ",
               [domain |-> d, host |-> ho]) :
     d \in Optional("a.com"), ho \in Optional("ns1.a.com")}
  \cup
  {ToolHandler("set_domain_note", "Failed to set domain note/folder: ",
               [domain |-> JsStr("a.com"), folder |-> f, note |-> n]) :
     n \in Optional("hold"), f \in Optional("parked")}
  \cup
  {ToolHandler("get_auction_details", "Failed to get auction details: ",
               [auction_id |-> JsStr("17"), include_bids |-> b]) :
     b \in {JsUndefined, JsBool(FALSE), JsBool(TRUE)}}
  \cup
  {ToolHandler("set_dnssec", "Failed to set DNSSEC: ",
               [domain |-> d, flags |-> f, algorithm |-> a, public_key |-> k, clear |-> c]) :
     d \in {JsStr(""), JsStr("a.com")}, c \in {JsUndefined, JsBool(FALSE), JsBool(TRUE)},
     f \in Optional("257"), a \in Optional("13"), k \in {JsUndefined, JsStr("mDs=")}}
  \cup
  {ToolHandler("set_folder_settings", "Failed to set folder settings: ",
               [params |-> p, setting_type |-> s, folder_id |-> JsStr("7")]) :
     s \in {"dns2", "clear"},
     p \in {JsUndefined, JsObj(<<>>)}
             \cup {JsObj(<<(<<"ttl", JsStr("300")>>), <<"folder_id", v>>>>) :
                     v \in {JsStr(""), JsStr("8")}}}
  \cup
  {ToolHandler("get_tld_price", "Failed to get TLD prices: ",
               [currency |-> c, count_per_page |-> n, page_index |-> x]) :
     c \in Optional("USD"), n \in {JsUndefined, JsNum(0), JsNum(20)},
     x \in {JsUndefined, JsNum(0), JsNum(1)}}

ToolResponses ==
  {MkResponse(200, "OK", JsonBody(JsObj(<<(<<"Response", OkEnvelope>>)>>))),
   MkResponse(200, "OK", JsonBody(JsObj(<<(<<"Response", ErrorEnvelope>>)>>))),
   MkResponse(500, "Internal Server Error", BadBody)}

NextTools ==
  \/ \E h \in Tools : EnterHandler(1, h)
  \/ /\ handler[1] = NoHandler
     /\ \E m \in MergeMethods, v \in {JsStr(""), JsStr("b.org")}, n \in 0..2 :
          MergeCall(1, m, JsStr("a.com"),
                    JsObj(SubSeq(<<(<<"ttl", JsStr("300")>>), <<m.field, v>>>>, 1, n)))
  \/ \E i \in CallIds : ToolCalls(i)
  \/ ToolReturns
  \/ \E i \in CallIds : TimerFires(i)
  \/ \E i \in CallIds : FetchAborted(i)
  \/ \E i \in CallIds : FetchFails(i, MkError("TypeError", "fetch failed"))
  \/ \E i \in CallIds, r \in ToolResponses : FetchResolves(i, r)
  \/ \E i \in CallIds : BodyArrives(i)
  \/ \E i \in CallIds : BodyFails(i, MkError("TypeError", "terminated"))
SpecTools == Init /\ [][NextTools]_vars

\* The start of the process and one invocation on the client it makes
StartupEnvs ==
  {Env(k, sb) : k \in {JsUndefined, JsStr("")} \cup {JsStr(k) : k \in ApiKeys},
                sb \in {JsUndefined, JsStr(""), JsStr("true"), JsStr("1"),
                        JsStr("false"), JsStr("0"), JsStr("TRUE")}}

InitStartup ==
  /\ env \in StartupEnvs
  /\ client = NoClient
  /\ proc = "starting"
  /\ pc = [i \in CallIds |-> "idle"]
  /\ method = [i \in CallIds |-> NoMethod]
  /\ command = [i \in CallIds |-> ""]
  /\ params = [i \in CallIds |-> JsUndefined]
  /\ url = [i \in CallIds |-> NoUrl]
  /\ timer = [i \in CallIds |-> "none"]
  /\ aborted = [i \in CallIds |-> FALSE]
  /\ exchange = [i \in CallIds |-> "none"]
  /\ response = [i \in CallIds |-> NoResponse]
  /\ jsonCalled = [i \in CallIds |-> FALSE]
  /\ outcome = [i \in CallIds |-> Pending]
  /\ sent = [i \in CallIds |-> <<>>]
  /\ elapsed = [i \in CallIds |-> FALSE]
  /\ handler = [i \in CallIds |-> NoHandler]
  /\ reply = [i \in CallIds |-> NoReply]

\* main from its entry to `await server.connect(transport)`: loadConfig, and
\* unless it throws the client, the server and the registrations; an error
\* thrown goes to main().catch, which exits the process
Main(version) ==
  /\ proc = "starting"
  /\ LET config == LoadConfig(version, env)
     IN IF IsThrown(config)
        THEN proc' = "exited" /\ UNCHANGED client
        ELSE proc' = "connecting" /\ client' = ClientOf(config.returned)
  /\ UNCHANGED <<pc, method, command, params, url, timer, aborted, exchange, response,
                 jsonCalled, outcome, sent, elapsed, handler, reply, env>>

\* server.connect resolves: the server takes requests
Connected ==
  /\ proc = "connecting"
  /\ proc' = "running"
  /\ UNCHANGED <<client, pc, method, command, params, url, timer, aborted, exchange,
                 response, jsonCalled, outcome, sent, elapsed, handler, reply, env>>

StartupCallInputs ==
  CallInputs \cup {[command |-> "set_folder_dns2",
                    params |-> JsObj(<<(<<"folder_id", JsStr("7")>>), <<"key", JsStr("a.com")>>>>)]}
StartupResponses ==
  {MkResponse(200, "OK", JsonBody(JsObj(<<(<<"DomainInfoResponse", OkEnvelope>>)>>))),
   MkResponse(500, "Internal Server Error", BadBody)}

NextStartup ==
  \/ \E v \in LoadConfigVersions : Main(v)
  \/ Connected
  \/ /\ proc = "running"
     /\ \/ \E in \in StartupCallInputs : Call(1, in.command, in.params)
        \/ TimerFires(1)
        \/ FetchAborted(1)
        \/ \E r \in StartupResponses : FetchResolves(1, r)
        \/ BodyArrives(1)
SpecStartup == InitStartup /\ [][NextStartup]_vars

TypeOK ==
  /\ pc \in [CallIds -> {"idle", "awaitFetch", "awaitBody", "done"}]
  /\ timer \in [CallIds -> {"none", "armed", "fired", "cleared"}]
  /\ proc \in {"starting", "connecting", "running", "exited"}
  /\ elapsed \in [CallIds -> BOOLEAN]
  /\ exchange \in [CallIds -> {"none", "inflight", "streaming", "complete", "failed", "aborted"}]
  /\ \A i \in CallIds : outcome[i].kind \in {"pending", "success", "failure"}

\* ------------------------------------------------------------------------
\* Properties of the request builder
\* ------------------------------------------------------------------------
Started(i) == pc[i] # "idle"
Fields(i) == url[i].searchParams
Entries(i) == IF Truthy(params[i]) THEN params[i].entries ELSE <<>>
IsEmptyValue(v) == v = JsUndefined \/ v = JsStr("")
AuthNames == {"key", "command"}

\* C1: the request of every invocation carries the configured credential in
\* its field `key` and the command argument in its field `command`, whatever
\* the params mapping holds, a `key` or `command` entry included.
C1_AuthFieldsNotOverridable ==
  \A i \in CallIds :
    Started(i) =>
      /\ SearchParamsGetAll(Fields(i), "key") = <<client.apiKey>>
      /\ SearchParamsGetAll(Fields(i), "command") = <<command[i]>>

IsIndexedName(name, prefix, n) == \E j \in 0..n : name = prefix \o ToString(j)

C3_ListFanOut ==
  \A i \in CallIds :
    (Started(i) /\ method[i].name \in {"search", "bulkRegister", "setNameservers"}) =>
      LET list == method[i].list
          prefix == method[i].prefix
      IN /\ \A j \in 0..(Len(list) - 1) :
              SearchParamsGetAll(Fields(i), prefix \o ToString(j)) = <<list[j + 1].s>>
         /\ Cardinality({j \in 1..Len(Fields(i)) :
                           IsIndexedName(Fields(i)[j][1], prefix, Len(list))})
              = Len(list)

\* ------------------------------------------------------------------------
\* Properties of the envelope check
\* ------------------------------------------------------------------------
\* the invocation got a success status and its whole body, which parsed
Completed(i) ==
  pc[i] = "done" /\ exchange[i] = "complete" /\ response[i].body.parse = "ok"
Json(i) == response[i].body.json

StartsWith(s, prefix) == Len(s) >= Len(prefix) /\ SubSeq(s, 1, Len(prefix)) = prefix

IsApplicationFailure(o) ==
  o.kind = "failure" /\ StartsWith(o.error.message, "Dynadot API error: ")

\* the body is an object with a top-level key ending in Response
HasWrapper(json) ==
  json.t = "object" /\ \E j \in 1..Len(json.entries) : EndsWith(json.entries[j][1], "Response")

\* the value under the first such key
SelectedWrapper(json) ==
  json.entries[CHOOSE j \in 1..Len(json.entries) :
                 /\ EndsWith(json.entries[j][1], "Response")
                 /\ \A h \in 1..(j - 1) : ~EndsWith(json.entries[h][1], "Response")][2]

\* an object whose ResponseCode is the number -1 or whose Status is "error"
WrapperSignalsError(w) ==
  /\ w.t = "object"
  /\ \E j \in 1..Len(w.entries) :
       \/ w.entries[j] = <<"ResponseCode", JsNum(-1)>>
       \/ w.entries[j] = <<"Status", JsStr("error")>>

Present(w, k) == \E j \in 1..Len(w.entries) : w.entries[j][1] = k

\* C4: for a 2xx response with a parseable body, call ends in an application
\* failure if and only if the selected wrapper is an object whose
\* ResponseCode is the number -1 or whose Status is the string "error".
C4_ApplicationFailureIff ==
  \A i \in CallIds :
    Completed(i) =>
      (IsApplicationFailure(outcome[i])
         <=> (HasWrapper(Json(i)) /\ WrapperSignalsError(SelectedWrapper(Json(i)))))

\* an application failure raised on Status "error" alone, next to a
\* ResponseCode of 0
C4_Witness ==
  \E i \in CallIds :
    /\ Completed(i)
    /\ IsApplicationFailure(outcome[i])
    /\ HasWrapper(Json(i))
    /\ GetProp(SelectedWrapper(Json(i)), "ResponseCode") = JsNum(0)
    /\ GetProp(SelectedWrapper(Json(i)), "Status") = JsStr("error")

\* C5 as stated: the message of an application failure is the wrapper's
\* Error whenever that field is present, else its Message whenever that is
\* present, else the serialization of the wrapper.
C5_MessageByPresence ==
  \A i \in CallIds :
    (Completed(i) /\ HasWrapper(Json(i)) /\ WrapperSignalsError(SelectedWrapper(Json(i)))) =>
      LET w == SelectedWrapper(Json(i))
          text == IF Present(w, "Error") THEN TemplateString(GetProp(w, "Error"))
                  ELSE IF Present(w, "Message") THEN TemplateString(GetProp(w, "Message"))
                  ELSE JsonStringify(w)
      IN outcome[i] = Rejected(MkError("Error", "Dynadot API error: " \o text))

\* C5 amended: the message is the wrapper's Error whenever that field is
\* present with a truthy value (not "", 0, null or false), else its Message
\* whenever that is present with a truthy value, else the serialization of
\* the wrapper.
C5_MessageByTruthiness ==
  \A i \in CallIds :
    (Completed(i) /\ HasWrapper(Json(i)) /\ WrapperSignalsError(SelectedWrapper(Json(i)))) =>
      LET w == SelectedWrapper(Json(i))
          v(k) == GetProp(w, k)
          usable(k) ==
            /\ Present(w, k)
            /\ v(k) # JsStr("") /\ v(k) # JsNum(0) /\ v(k) # JsNull /\ v(k) # JsBool(FALSE)
          text == IF usable("Error") THEN TemplateString(GetProp(w, "Error"))
                  ELSE IF usable("Message") THEN TemplateString(GetProp(w, "Message"))
                  ELSE JsonStringify(w)
      IN outcome[i] = Rejected(MkError("Error", "Dynadot API error: " \o text))

\* an application failure whose wrapper has both an Error and a Message worth
\* reporting, reported with the Error
C5_Witness ==
  \E i \in CallIds :
    /\ Completed(i)
    /\ HasWrapper(Json(i))
    /\ GetProp(SelectedWrapper(Json(i)), "Error") = JsStr("bad domain")
    /\ GetProp(SelectedWrapper(Json(i)), "Message") = JsStr("try later")
    /\ outcome[i] = Rejected(MkError("Error", "Dynadot API error: bad domain"))

\* C6: when the selected wrapper of a 2xx response signals no error, call
\* returns Success with the entire parsed body, every top-level key and value
\* kept, not the wrapper's content.
C6_SuccessKeepsFullBody ==
  \A i \in CallIds :
    (Completed(i) /\ HasWrapper(Json(i)) /\ ~WrapperSignalsError(SelectedWrapper(Json(i)))) =>
      /\ outcome[i].kind = "success"
      /\ outcome[i].value = Json(i)

\* a success on a body of two top-level keys whose wrapper is an object
C6_Witness ==
  \E i \in CallIds :
    /\ Completed(i)
    /\ HasWrapper(Json(i))
    /\ SelectedWrapper(Json(i)).t = "object"
    /\ Len(Json(i).entries) = 2
    /\ outcome[i] = Resolved(Json(i))

\* C7: for a 2xx response whose parsed body has no top-level key ending in
\* Response, call returns Success with the full body and never a failure,
\* whatever the body is.
C7_NoWrapperNeverFails ==
  \A i \in CallIds :
    (Completed(i) /\ ~HasWrapper(Json(i))) => outcome[i] = Resolved(Json(i))

\* ------------------------------------------------------------------------
\* Properties of the deadline and of the status check
\* ------------------------------------------------------------------------
IsTimeoutFailure(i) ==
  /\ outcome[i].kind = "failure"
  /\ Includes(outcome[i].error.message, "timed out")
  /\ Includes(outcome[i].error.message, command[i])
  /\ Includes(outcome[i].error.message, ToString(client.timeoutMs))

\* C8: when the deadline elapses before the exchange has produced a
\* response, the in-flight request is aborted, the invocation ends in a
\* timeout failure whose message has the command name and the configured
\* duration, and it never delivers a Success.
C8_TimeoutAbortsAndFails ==
  /\ [](\A i \in CallIds :
          timer[i] = "fired" =>
            /\ aborted[i]
            /\ exchange[i] = "aborted"
            /\ outcome[i].kind # "success"
            /\ pc[i] = "done" => IsTimeoutFailure(i))
  /\ \A i \in CallIds :
       (timer[i] = "fired") ~> (pc[i] = "done" /\ IsTimeoutFailure(i))

\* an invocation whose timer fired and that ended in the timeout failure
C8_Witness ==
  \E i \in CallIds :
    /\ timer[i] = "fired"
    /\ exchange[i] = "aborted"
    /\ pc[i] = "done"
    /\ IsTimeoutFailure(i)

\* C9: in every state where an invocation is suspended on the network
\* exchange, waiting for the response or for its body, its deadline timer is
\* still in force (armed, or fired with the abort on its way).
C9_DeadlineCoversWholeExchange ==
  \A i \in CallIds :
    pc[i] \in {"awaitFetch", "awaitBody"} => timer[i] \in {"armed", "fired"}

NonSuccessStatus(r) == r.status < 200 \/ r.status > 299

IsHttpFailure(i) ==
  /\ outcome[i].kind = "failure"
  /\ StartsWith(outcome[i].error.message, "Dynadot API HTTP error: ")
  /\ Includes(outcome[i].error.message, ToString(response[i].status))
  /\ Includes(outcome[i].error.message, response[i].statusText)

\* C10: for every response with a non-success status, call ends in a
\* transport failure carrying the status code and the status text, and the
\* body is never read or parsed nor the envelope inspected, even when the
\* body is well-formed JSON.
C10_NonSuccessStatusSkipsBody ==
  \A i \in CallIds :
    (response[i] # NoResponse /\ NonSuccessStatus(response[i])) =>
      /\ pc[i] = "done"
      /\ IsHttpFailure(i)
      /\ ~jsonCalled[i]
      /\ exchange[i] # "complete"

\* a 500 whose body is a well-formed error envelope, ended in the HTTP failure
C10_Witness ==
  \E i \in CallIds :
    /\ response[i] # NoResponse
    /\ response[i].status = 500
    /\ response[i].body.parse = "ok"
    /\ HasWrapper(response[i].body.json)
    /\ WrapperSignalsError(SelectedWrapper(response[i].body.json))
    /\ IsHttpFailure(i)

\* ------------------------------------------------------------------------
\* Properties of the failure classes
\* ------------------------------------------------------------------------
\* the invocation got a success status and its whole body, which does not
\* parse as JSON
GotUnparseableBody(i) ==
  /\ pc[i] = "done"
  /\ exchange[i] = "complete"
  /\ response[i].status >= 200 /\ response[i].status <= 299
  /\ response[i].body.parse # "ok"

\* C11: when the body of a 2xx response does not parse as JSON, call ends in
\* a failure that carries the parse error (a SyntaxError); the failure is not
\* an application failure (`Dynadot API error`) and the outcome is not a
\* Success.
C11_ParseFailureIsNotApplication ==
  \A i \in CallIds :
    GotUnparseableBody(i) =>
      /\ outcome[i].kind = "failure"
      /\ outcome[i].error.name = response[i].body.parse
      /\ ~IsApplicationFailure(outcome[i])

\* a 200 with an unparseable body, ended in the SyntaxError
C11_Witness ==
  \E i \in CallIds :
    /\ GotUnparseableBody(i)
    /\ response[i].status = 200
    /\ outcome[i].kind = "failure"
    /\ outcome[i].error.name = "SyntaxError"

\* C12: a failure to make or complete the exchange that the deadline did not
\* cause is reported with its underlying cause and not as a timeout, and an
\* invocation whose deadline expired before it ended is reported as a
\* timeout, not as a plain transport failure.
C12_TimeoutAndTransportDistinct ==
  \A i \in CallIds :
    pc[i] = "done" =>
      /\ exchange[i] = "failed" =>
           /\ outcome[i].kind = "failure"
           /\ outcome[i].error \in NetworkErrors
           /\ ~IsTimeoutFailure(i)
      /\ elapsed[i] =>
           /\ IsTimeoutFailure(i)
           /\ exchange[i] # "failed"

\* ------------------------------------------------------------------------
\* Properties of concurrent invocations
\* ------------------------------------------------------------------------
\* every field of the request of invocation i is the credential, the
\* command of i or a parameter of i
OwnRequest(i) ==
  \A r \in 1..Len(sent[i]) :
    LET f == sent[i][r].url.searchParams
    IN \A j \in 1..Len(f) :
         \/ f[j] = <<"key", client.apiKey>>
         \/ f[j] = <<"command", command[i]>>
         \/ \E e \in 1..Len(Entries(i)) : Entries(i)[e] = <<f[j][1], JsStr(f[j][2])>>

\* the outcome of invocation i is the one its own exchange and response give
OwnOutcome(i) ==
  LET failedWith(message) ==
        outcome[i].kind = "failure" /\ outcome[i].error.message = message
  IN CASE pc[i] # "done" -> outcome[i] = Pending
       [] exchange[i] = "aborted" ->
            failedWith("Dynadot API request timed out after "
                         \o ToString(client.timeoutMs) \o "ms: " \o command[i])
       [] exchange[i] = "failed" ->
            outcome[i].kind = "failure" /\ outcome[i].error \in NetworkErrors
       [] NonSuccessStatus(response[i]) ->
            failedWith("Dynadot API HTTP error: " \o ToString(response[i].status)
                         \o " " \o response[i].statusText)
       [] response[i].body.parse # "ok" ->
            outcome[i].kind = "failure" /\ outcome[i].error.name = response[i].body.parse
       [] OTHER ->
            IF HasWrapper(Json(i)) /\ WrapperSignalsError(SelectedWrapper(Json(i)))
            THEN failedWith("Dynadot API error: "
                              \o TemplateString(GetProp(SelectedWrapper(Json(i)), "Error")))
            ELSE outcome[i] = Resolved(Json(i))

\* C13: in every interleaving of the invocations made on one client, the
\* request of each invocation holds only the credential, its own command and
\* its own parameters, and its outcome is the one derived from its own
\* exchange and response.
C13_InvocationsIsolated ==
  \A i \in CallIds : Started(i) => (OwnRequest(i) /\ OwnOutcome(i))

\* two invocations with different commands both waiting for their bodies,
\* one answered with a success envelope and the other with an error envelope,
\* the parameter of the second absent from the request of the first
C13_Witness ==
  \E i, j \in CallIds :
    /\ i # j
    /\ pc[i] = "awaitBody" /\ pc[j] = "awaitBody"
    /\ command[i] # command[j]
    /\ response[i].body.parse = "ok" /\ response[j].body.parse = "ok"
    /\ ~WrapperSignalsError(SelectedWrapper(Json(i)))
    /\ WrapperSignalsError(SelectedWrapper(Json(j)))
    /\ SearchParamsHas(Fields(j), "domain")
    /\ ~SearchParamsHas(Fields(i), "domain")
    /\ OwnRequest(i) /\ OwnRequest(j)

\* C14: when the deadline timer of one invocation fires, the exchange, the
\* abort signal, the timer, the position and the outcome of every other
\* invocation stay as they are; an invocation is aborted or ends in a timeout
\* only if its own timer fired, and every invocation ends with the outcome
\* of its own exchange.
C14_CancellationIsLocal ==
  /\ [][\A i \in CallIds :
          (timer[i] = "armed" /\ timer'[i] = "fired") =>
            \A j \in CallIds \ {i} :
              /\ exchange'[j] = exchange[j]
              /\ aborted'[j] = aborted[j]
              /\ timer'[j] = timer[j]
              /\ pc'[j] = pc[j]
              /\ outcome'[j] = outcome[j]]_vars
  /\ [](\A j \in CallIds :
          /\ (aborted[j] \/ exchange[j] = "aborted") => timer[j] = "fired"
          /\ (pc[j] = "done" /\ IsTimeoutFailure(j)) => timer[j] = "fired"
          /\ Started(j) => OwnOutcome(j))

\* the timer of one invocation has fired and aborted its exchange while
\* another invocation is in flight, its signal not aborted
C14_Witness ==
  \E i, j \in CallIds :
    /\ i # j
    /\ timer[i] = "fired" /\ exchange[i] = "aborted" /\ pc[i] = "awaitFetch"
    /\ pc[j] = "awaitFetch" /\ exchange[j] = "inflight"
    /\ timer[j] = "armed" /\ ~aborted[j]

\* ------------------------------------------------------------------------
\* Properties of the round trip
\* ------------------------------------------------------------------------
\* C15: an invocation that has begun has handed exactly one request to
\* fetch, a GET of the URL it built, and one that has not begun none; once
\* the outcome of an invocation is a failure, of whatever class, no step
\* sends a request for it.
C15_OneRequestNoRetry ==
  /\ [](\A i \in CallIds :
          IF Started(i)
          THEN sent[i] = <<Request("GET", url[i])>>
          ELSE sent[i] = <<>>)
  /\ [][\A i \in CallIds :
          outcome[i].kind = "failure" => sent'[i] = sent[i]]_vars

\* an invocation ended by a network error and another by an application
\* failure, one GET sent for each
C15_Witness ==
  \E i, j \in CallIds :
    /\ pc[i] = "done" /\ exchange[i] = "failed"
    /\ outcome[i].kind = "failure"
    /\ pc[j] = "done" /\ IsApplicationFailure(outcome[j])
    /\ Len(sent[i]) = 1 /\ sent[i][1].method = "GET"
    /\ Len(sent[j]) = 1 /\ sent[j][1].method = "GET"

\* ------------------------------------------------------------------------
\* Properties of the tool handlers and the resource readers
\* ------------------------------------------------------------------------
\* the handler of invocation i has returned
Replied(i) == reply[i] # NoReply

FailedUnder(i, kind) ==
  handler[i].kind = kind /\ pc[i] = "done" /\ outcome[i].kind = "failure"

\* C16: when the invocation under a tool handler ends in a failure, of
\* whatever class, what the handler returns is a reply, not a thrown error,
\* with one text item that holds the failure message and is not empty, and
\* with the property isError equal to true.
C16_ToolFailureReplies ==
  \A i \in CallIds :
    (FailedUnder(i, "tool") /\ Replied(i)) =>
      /\ DOMAIN reply[i] = {"content", "isError"}
      /\ reply[i].isError = TRUE
      /\ Len(reply[i].content) = 1
      /\ reply[i].content[1].type = "text"
      /\ reply[i].content[1].text # ""
      /\ Includes(reply[i].content[1].text, outcome[i].error.message)

\* the search_domain tool has answered a timeout of its invocation with a
\* reply marked as an error that holds the timeout message
C16_Witness ==
  \E i \in CallIds :
    /\ FailedUnder(i, "tool")
    /\ handler[i].name = "search_domain"
    /\ IsTimeoutFailure(i)
    /\ Replied(i)
    /\ reply[i].isError = TRUE
    /\ reply[i].content[1].text = "Domain search failed: " \o outcome[i].error.message

\* A reader of JSON text, to tell what value a text stands for: Read*(s, p)
\* reads at position p of s and gives the value read and the position after
\* it; text that is not JSON gives Unreadable
Unreadable == [t |-> "unreadable"]
Ch(s, p) == IF p >= 1 /\ p <= Len(s) THEN SubSeq(s, p, p) ELSE ""
Digits == <<"0", "1", "2", "3", "4", "5", "6", "7", "8", "9">>
IsDigit(c) == \E d \in 1..10 : Digits[d] = c
DigitValue(c) == (CHOOSE d \in 1..10 : Digits[d] = c) - 1
Got(v, p) == [value |-> v, next |-> p]

\* the first position from p on whose character is in (or, with inside
\* FALSE, is not in) the set cs; Len(s) + 1 when there is none
FirstAt(s, p, cs, inside) ==
  LET hit(q) == (Ch(s, q) \in cs) = inside
  IN IF \E q \in p..Len(s) : hit(q)
     THEN CHOOSE q \in p..Len(s) : hit(q) /\ \A r \in p..(q - 1) : ~hit(r)
     ELSE Len(s) + 1

SkipSpace(s, p) == FirstAt(s, p, {" ", "\n"}, FALSE)

\* the characters of a string from p on, up to the closing quote
RECURSIVE ReadChars(_, _, _)
ReadChars(s, p, acc) ==
  LET stop == FirstAt(s, p, {"\"", "\\"}, TRUE)
      plain == acc \o SubSeq(s, p, stop - 1)
  IN IF stop > Len(s) THEN Got(Unreadable, p)
     ELSE IF Ch(s, stop) = "\"" THEN Got(JsStr(plain), stop + 1)
     ELSE LET d == Ch(s, stop + 1)
          IN ReadChars(s, stop + 2, plain \o (IF d = "n" THEN "\n" ELSE d))

RECURSIVE ReadDigits(_, _, _)
ReadDigits(s, p, acc) ==
  IF IsDigit(Ch(s, p)) THEN ReadDigits(s, p + 1, 10 * acc + DigitValue(Ch(s, p)))
  ELSE Got(JsNum(acc), p)

ReadWord(s, p, word, v) ==
  IF SubSeq(s, p, p + Len(word) - 1) = word THEN Got(v, p + Len(word))
  ELSE Got(Unreadable, p)

RECURSIVE ReadValue(_, _)
RECURSIVE ReadMembers(_, _, _)
RECURSIVE ReadElements(_, _, _)
ReadValue(s, p0) ==
  LET p == SkipSpace(s, p0)
      c == Ch(s, p)
  IN CASE c = "{" -> ReadMembers(s, SkipSpace(s, p + 1), <<>>)
       [] c = "[" -> ReadElements(s, SkipSpace(s, p + 1), <<>>)
       [] c = "\"" -> ReadChars(s, p + 1, "")
       [] c = "t" -> ReadWord(s, p, "true", JsBool(TRUE))
       [] c = "f" -> ReadWord(s, p, "false", JsBool(FALSE))
       [] c = "n" -> ReadWord(s, p, "null", JsNull)
       [] c = "-" /\ IsDigit(Ch(s, p + 1)) ->
            LET n == ReadDigits(s, p + 1, 0) IN Got(JsNum(0 - n.value.n), n.next)
       [] IsDigit(c) -> ReadDigits(s, p, 0)
       [] OTHER -> Got(Unreadable, p)

ReadMembers(s, p, acc) ==
  IF Ch(s, p) = "}" /\ acc = <<>> THEN Got(JsObj(acc), p + 1)
  ELSE IF Ch(s, p) # "\"" THEN Got(Unreadable, p)
  ELSE LET k == ReadChars(s, p + 1, "")
           colon == SkipSpace(s, k.next)
       IN IF k.value = Unreadable \/ Ch(s, colon) # ":" THEN Got(Unreadable, p)
          ELSE LET v == ReadValue(s, colon + 1)
                   q == SkipSpace(s, v.next)
                   all == Append(acc, <<k.value.s, v.value>>)
               IN IF v.value = Unreadable THEN Got(Unreadable, p)
                  ELSE IF Ch(s, q) = "," THEN ReadMembers(s, SkipSpace(s, q + 1), all)
                  ELSE IF Ch(s, q) = "}" THEN Got(JsObj(all), q + 1)
                  ELSE Got(Unreadable, q)

ReadElements(s, p, acc) ==
  IF Ch(s, p) = "]" /\ acc = <<>> THEN Got(JsArr(acc), p + 1)
  ELSE LET v == ReadValue(s, p)
           q == SkipSpace(s, v.next)
           all == Append(acc, v.value)
       IN IF v.value = Unreadable THEN Got(Unreadable, p)
          ELSE IF Ch(s, q) = "," THEN ReadElements(s, SkipSpace(s, q + 1), all)
          ELSE IF Ch(s, q) = "]" THEN Got(JsArr(all), q + 1)
          ELSE Got(Unreadable, q)

\* the value a whole text stands for
ReadJson(s) ==
  LET r == ReadValue(s, 1)
  IN IF r.value # Unreadable /\ SkipSpace(s, r.next) = Len(s) + 1 THEN r.value
     ELSE Unreadable

\* C17: what a resource reader returns is in every case a resource reply,
\* never a thrown error: one item with the URI of the resource and the JSON
\* media type, whose text is, after a Success, JSON text standing for the
\* parsed body and, after a failure of whatever class, JSON text standing for
\* an object whose property error is the failure message.
C17_ResourceRepliesAlways ==
  \A i \in CallIds :
    (handler[i].kind = "resource" /\ Replied(i)) =>
      /\ DOMAIN reply[i] = {"contents"}
      /\ Len(reply[i].contents) = 1
      /\ reply[i].contents[1].uri = handler[i].uri
      /\ reply[i].contents[1].mimeType = "application/json"
      /\ ReadJson(reply[i].contents[1].text)
           = IF outcome[i].kind = "success" THEN outcome[i].value
             ELSE JsObj(<<(<<"error", JsStr(outcome[i].error.message)>>)>>)

\* the reader of dynadot://domains has answered an application failure
\* whose message holds quotes with a reply whose text stands for it
C17_Witness ==
  \E i \in CallIds :
    /\ FailedUnder(i, "resource")
    /\ handler[i].uri = "dynadot://domains"
    /\ Replied(i)
    /\ outcome[i].error.message = "Dynadot API error: {\"ResponseCode\":-1}"
    /\ reply[i].contents[1].text
         = "{\n  \"error\": \"Dynadot API error: {\\\"ResponseCode\\\":-1}\"\n}"

\* ------------------------------------------------------------------------
\* Properties of the configuration
\* ------------------------------------------------------------------------
\* C18: when DYNADOT_API_KEY is not set or is empty, loading the
\* configuration ends the process: no client is made, the server does not
\* get to take requests, and no request is sent.
C18_MissingKeyIsFatal ==
  ~Truthy(env.DYNADOT_API_KEY) =>
    /\ client = NoClient
    /\ proc \in {"starting", "exited"}
    /\ \A i \in CallIds : sent[i] = <<>>

\* the two base addresses
BaseUrls == {PROD_URL, SANDBOX_URL}

\* the configuration of the client is what construction made it from the
\* environment, and no step changes it
ConfigurationFixed ==
  /\ [](client # NoClient =>
          /\ client.baseUrl \in BaseUrls
          /\ client.baseUrl = SANDBOX_URL
               <=> (env.DYNADOT_SANDBOX = JsStr("true") \/ env.DYNADOT_SANDBOX = JsStr("1"))
          /\ client.timeoutMs = DefaultTimeoutMs)
  /\ [][client # NoClient => client' = client]_vars

\* C19: the base address of the client is the sandbox URL if DYNADOT_SANDBOX
\* was "true" or "1" at construction and the production URL otherwise; base
\* address, credential and deadline do not change after construction, and
\* every request the client sends goes to that base address with that
\* credential in its field `key`.
C19_ConfigurationFixedForEveryRequest ==
  /\ ConfigurationFixed
  /\ [](\A i \in CallIds : \A r \in 1..Len(sent[i]) :
          /\ sent[i][r].url.base = client.baseUrl
          /\ SearchParamsGetAll(sent[i][r].url.searchParams, "key") = <<client.apiKey>>)

\* ------------------------------------------------------------------------
\* Properties of the outcome
\* ------------------------------------------------------------------------
\* C20: an invocation has an outcome exactly when it has ended, the outcome
\* is either a Success with the parsed body or one failure, and once there
\* it never changes; the outcome is a Success only if the whole exchange
\* completed before timeoutMs had passed, the status was in 200..299, the
\* body parsed and its selected wrapper signals no error.
C20_OneOutcomeAndSuccessConditions ==
  /\ [](\A i \in CallIds :
          /\ pc[i] = "done" <=> outcome[i] # Pending
          /\ outcome[i].kind \in {"pending", "success", "failure"}
          /\ outcome[i].kind = "success" =>
               /\ DOMAIN outcome[i] = {"kind", "value"}
               /\ exchange[i] = "complete"
               /\ ~elapsed[i]
               /\ ~NonSuccessStatus(response[i])
               /\ response[i].body.parse = "ok"
               /\ outcome[i].value = Json(i)
               /\ ~(HasWrapper(Json(i)) /\ WrapperSignalsError(SelectedWrapper(Json(i))))
          /\ outcome[i].kind = "failure" => DOMAIN outcome[i] = {"kind", "error"})
  /\ [][\A i \in CallIds : outcome[i] # Pending => outcome'[i] = outcome[i]]_vars

\* ------------------------------------------------------------------------
\* Properties of the wrapper selection
\* ------------------------------------------------------------------------
WrapperPositions(json) ==
  {j \in 1..Len(json.entries) : EndsWith(json.entries[j][1], "Response")}

\* C21: when several top-level keys of the parsed body end in Response, the
\* first of them in the key order of the body decides alone: call ends in an
\* application failure if that wrapper signals an error and in Success with
\* the full body if it does not, whatever the later wrappers hold.
C21_FirstWrapperDecides ==
  \A i \in CallIds :
    (Completed(i) /\ Json(i).t = "object" /\ Cardinality(WrapperPositions(Json(i))) >= 2) =>
      LET first == CHOOSE j \in WrapperPositions(Json(i)) :
                     \A h \in WrapperPositions(Json(i)) : j <= h
      IN IF WrapperSignalsError(Json(i).entries[first][2])
         THEN IsApplicationFailure(outcome[i])
         ELSE outcome[i] = Resolved(Json(i))

\* a body of two wrappers, the first without an error and the second with
\* one, returned as Success
C21_Witness ==
  \E i \in CallIds :
    /\ Completed(i)
    /\ Json(i).t = "object"
    /\ WrapperPositions(Json(i)) = {1, 2}
    /\ Json(i).entries[1][2].t = "object"
    /\ ~WrapperSignalsError(Json(i).entries[1][2])
    /\ WrapperSignalsError(Json(i).entries[2][2])
    /\ outcome[i] = Resolved(Json(i))

\* ------------------------------------------------------------------------
\* Handlers that choose among client methods or await several
\* ------------------------------------------------------------------------
Serving(name) == handler[1] # NoHandler /\ handler[1].name = name
NothingSent == \A i \in CallIds : sent[i] = <<>>
IsErrorReply(r) ==
  /\ DOMAIN r = {"content", "isError"}
  /\ r.isError = TRUE
  /\ Len(r.content) = 1
  /\ r.content[1].type = "text"

\* the argument documented as required for the chosen action is missing or
\* empty
RequiredArgumentMissing ==
  \/ /\ Serving("manage_domain_push")
     /\ handler[1].args.action \in {"accept", "reject"}
     /\ IsEmptyValue(handler[1].args.push_id)
  \/ /\ Serving("manage_backorders")
     /\ handler[1].args.action \in {"add", "delete"}
     /\ IsEmptyValue(handler[1].args.domain)
  \/ /\ Serving("manage_backorder_auctions")
     /\ handler[1].args.action = "details"
     /\ IsEmptyValue(handler[1].args.auction_id)
  \/ /\ Serving("manage_backorder_auctions")
     /\ handler[1].args.action = "bid"
     /\ IsEmptyValue(handler[1].args.auction_id) \/ IsEmptyValue(handler[1].args.amount)
  \/ /\ Serving("buy_expired_domain")
     /\ handler[1].args.action = "buy"
     /\ IsEmptyValue(handler[1].args.domain)

\* C22: in manage_domain_push, manage_backorders, manage_backorder_auctions
\* and buy_expired_domain, when the argument required for the chosen action
\* is missing or empty, no request is ever sent, and what the handler
\* returns is a reply with one text item and isError equal to true.
C22_MissingArgumentSendsNothing ==
  RequiredArgumentMissing =>
    /\ NothingSent
    /\ Replied(1) => IsErrorReply(reply[1])

C22_Witness ==
  /\ Serving("manage_backorder_auctions")
  /\ handler[1].args.action = "bid"
  /\ handler[1].args.auction_id = JsStr("17")
  /\ handler[1].args.amount = JsStr("")
  /\ Replied(1)
  /\ reply[1] = ErrorReply("auction_id and amount are required for 'bid'")
  /\ NothingSent

\* the requests sent while the request is served, in the order of the
\* invocations
RECURSIVE SentUpTo(_)
SentUpTo(n) == IF n = 0 THEN <<>> ELSE SentUpTo(n - 1) \o sent[n]
Requests == SentUpTo(NumCalls)

\* the request r is for the command cmd and has, after the credential and
\* the command, exactly the fields given
Carries(r, cmd, fields) ==
  r.url.searchParams = <<(<<"key", client.apiKey>>), <<"command", cmd>>>> \o fields
AllCarry(cmd, fields) == \A r \in 1..Len(Requests) : Carries(Requests[r], cmd, fields)

\* C23: delete_nameserver sends at most one request, and exactly one by the
\* time it replies when host or domain is given: delete_ns_by_domain with
\* the domain when the domain is not empty, also when a host is given too,
\* otherwise delete_ns with the host when the host is not empty; when
\* neither is given no request is sent and the reply is the isError reply
\* "Either host or domain is required".
C23_DeleteNameserverChoosesOne ==
  Serving("delete_nameserver") =>
    LET domain == handler[1].args.domain
        host == handler[1].args.host
    IN /\ Len(Requests) <= 1
       /\ Truthy(domain) =>
            /\ AllCarry("delete_ns_by_domain", <<(<<"domain", domain.s>>)>>)
            /\ Replied(1) => Len(Requests) = 1
       /\ (~Truthy(domain) /\ Truthy(host)) =>
            /\ AllCarry("delete_ns", <<(<<"host", host.s>>)>>)
            /\ Replied(1) => Len(Requests) = 1
       /\ (~Truthy(domain) /\ ~Truthy(host)) =>
            /\ NothingSent
            /\ Replied(1) => reply[1] = ErrorReply("Either host or domain is required")

C23_Witness ==
  /\ Serving("delete_nameserver")
  /\ handler[1].args.domain = JsStr("a.com")
  /\ handler[1].args.host = JsStr("ns1.a.com")
  /\ Replied(1)
  /\ Len(Requests) = 1
  /\ Carries(Requests[1], "delete_ns_by_domain", <<(<<"domain", "a.com">>)>>)

CommandOf(r) == SearchParamsGetAll(r.url.searchParams, "command")[1]
NoteCommands ==
  (IF handler[1].args.note # JsUndefined THEN <<"set_note">> ELSE <<>>)
    \o (IF handler[1].args.folder # JsUndefined THEN <<"set_folder">> ELSE <<>>)

\* C24: set_domain_note sends set_note, when a note is supplied, before
\* set_folder, when a folder is supplied, and each only once the one before
\* it has succeeded: after a failed set_note no set_folder is ever sent;
\* when set_note succeeded and set_folder failed the reply is an isError
\* reply although set_note was answered with success; when neither is
\* supplied nothing is sent and the reply is the non-error text "[]".
C24_NoteThenFolder ==
  Serving("set_domain_note") =>
    /\ Len(Requests) <= Len(NoteCommands)
    /\ \A r \in 1..Len(Requests) :
         /\ CommandOf(Requests[r]) = NoteCommands[r]
         /\ \A q \in 1..(r - 1) : outcome[q].kind = "success"
    /\ (NoteCommands = <<"set_note", "set_folder">> /\ outcome[1].kind = "failure") =>
         /\ Len(Requests) = 1
         /\ Replied(1) => IsErrorReply(reply[1])
    /\ (NoteCommands = <<"set_note", "set_folder">> /\ outcome[1].kind = "success"
          /\ outcome[2].kind = "failure" /\ Replied(1)) =>
         IsErrorReply(reply[1])
    /\ (NoteCommands = <<>>) =>
         /\ NothingSent
         /\ Replied(1) => reply[1] = [content |-> <<TextContent("[]")>>]

C24_Witness ==
  /\ Serving("set_domain_note")
  /\ NoteCommands = <<"set_note", "set_folder">>
  /\ Len(Requests) = 2
  /\ outcome[1].kind = "success"
  /\ outcome[2].kind = "failure"
  /\ Replied(1)
  /\ IsErrorReply(reply[1])

\* C25: get_auction_details with include_bids sends get_auction_details
\* first and get_auction_bids only once the details request has succeeded;
\* its reply is the object of the two results when both requests succeeded,
\* and otherwise an isError reply whose text is the prefix and the message
\* of the failure, with neither result in it.
C25_DetailsThenBids ==
  (Serving("get_auction_details") /\ handler[1].args.include_bids = JsBool(TRUE)) =>
    /\ Len(Requests) <= 2
    /\ Len(Requests) >= 1 => CommandOf(Requests[1]) = "get_auction_details"
    /\ Len(Requests) = 2 =>
         /\ CommandOf(Requests[2]) = "get_auction_bids"
         /\ outcome[1].kind = "success"
    /\ Replied(1) =>
         IF outcome[1].kind = "success" /\ outcome[2].kind = "success"
         THEN reply[1] = [content |-> <<TextContent(JsonStringifyIndent(
                JsObj(<<(<<"details", outcome[1].value>>), <<"bids", outcome[2].value>>>>), ""))>>]
         ELSE \E j \in 1..2 :
                /\ outcome[j].kind = "failure"
                /\ reply[1] = ErrorReply("Failed to get auction details: "
                                           \o outcome[j].error.message)

C25_Witness ==
  /\ Serving("get_auction_details")
  /\ handler[1].args.include_bids = JsBool(TRUE)
  /\ Len(Requests) = 2
  /\ outcome[1].kind = "success"
  /\ outcome[2].kind = "failure"
  /\ Replied(1)
  /\ IsErrorReply(reply[1])

\* the field name with the argument v as its value, as the request has it
\* when v is not empty
FieldOf(name, v) == IF IsEmptyValue(v) THEN <<>> ELSE <<(<<name, v.s>>)>>
DnssecFields ==
  FieldOf("flags", handler[1].args.flags) \o FieldOf("algorithm", handler[1].args.algorithm)
    \o FieldOf("public_key", handler[1].args.public_key)

\* C26 as stated: with clear true set_dnssec sends only clear_dnssec
\* requests for the domain, whatever flags, algorithm and public_key are;
\* otherwise it sends only set_dnssec requests with the domain as
\* domain_name and exactly the non-empty ones of flags, algorithm and
\* public_key.
C26_DnssecRequestCarriesDomain ==
  Serving("set_dnssec") =>
    IF handler[1].args.clear = JsBool(TRUE)
    THEN AllCarry("clear_dnssec", <<(<<"domain", handler[1].args.domain.s>>)>>)
    ELSE AllCarry("set_dnssec",
                  <<(<<"domain_name", handler[1].args.domain.s>>)>> \o DnssecFields)

\* C26 amended: with clear true set_dnssec sends only clear_dnssec requests,
\* whatever flags, algorithm and public_key are; otherwise it sends only
\* set_dnssec requests with exactly the non-empty ones of flags, algorithm
\* and public_key; the domain is carried as domain, or as domain_name, when
\* it is not empty, and an empty domain adds no field.
C26_DnssecRequest ==
  Serving("set_dnssec") =>
    /\ Len(Requests) <= 1
    /\ IF handler[1].args.clear = JsBool(TRUE)
       THEN AllCarry("clear_dnssec", FieldOf("domain", handler[1].args.domain))
       ELSE AllCarry("set_dnssec",
                     FieldOf("domain_name", handler[1].args.domain) \o DnssecFields)

C26_Witness ==
  /\ Serving("set_dnssec")
  /\ handler[1].args.clear = JsBool(TRUE)
  /\ handler[1].args.flags = JsStr("257")
  /\ handler[1].args.domain = JsStr("a.com")
  /\ Replied(1)
  /\ Len(Requests) = 1
  /\ Carries(Requests[1], "clear_dnssec", <<(<<"domain", "a.com">>)>>)

\* ------------------------------------------------------------------------
\* Properties of the timer at the exits of call
\* ------------------------------------------------------------------------
\* C27: whichever way an invocation ends, once it has its outcome its timer
\* is not armed any more (it was cleared, or it had fired and the outcome is
\* the timeout), and no later step fires the timer or aborts the signal of
\* an invocation that has its outcome.
C27_NoTimerOutlivesTheCall ==
  /\ [](\A i \in CallIds :
          /\ pc[i] = "done" => timer[i] \in {"cleared", "fired"}
          /\ (pc[i] = "done" /\ timer[i] = "fired") =>
               outcome[i] = Rejected(MkError("Error", TimeoutMessage(client, command[i]))))
  /\ [][\A i \in CallIds :
          pc[i] = "done" => (timer'[i] = timer[i] /\ aborted'[i] = aborted[i])]_vars

\* one invocation has ended in a parse failure and another in a timeout, the
\* timer of the first cleared and its signal never aborted
C27_Witness ==
  \E i, j \in CallIds :
    /\ pc[i] = "done" /\ GotUnparseableBody(i) /\ outcome[i].kind = "failure"
    /\ timer[i] = "cleared" /\ ~aborted[i]
    /\ pc[j] = "done" /\ IsTimeoutFailure(j) /\ timer[j] = "fired"

\* ------------------------------------------------------------------------
\* Properties of the methods that merge an argument with a map
\* ------------------------------------------------------------------------
\* the values the request has under the name of the identifying field, when
\* the map has an entry of that name
FromTheMap(map, field) == FieldOf(field, GetProp(map, field))
ValuesUnder(r, field) ==
  LET got == SearchParamsGetAll(r.url.searchParams, field)
  IN [j \in 1..Len(got) |-> <<field, got[j]>>]

\* C28: in setDns, setDnssec, editContact, setWhoisContacts, setEmailForward
\* and set_folder_settings, when the map has an entry with the name of the
\* identifying field, the request has under that name the value of the map
\* entry and not the explicit argument, and no field of that name when the
\* map entry is the empty string.
C28_MapEntryReplacesArgument ==
  /\ \A i \in CallIds :
       (Started(i) /\ "map" \in DOMAIN method[i]
          /\ HasKey(method[i].map.entries, method[i].field)) =>
         \A r \in 1..Len(sent[i]) :
           ValuesUnder(sent[i][r], method[i].field)
             = FromTheMap(method[i].map, method[i].field)
  /\ (Serving("set_folder_settings") /\ Truthy(handler[1].args.params)
        /\ HasKey(handler[1].args.params.entries, "folder_id")) =>
       \A r \in 1..Len(Requests) :
         ValuesUnder(Requests[r], "folder_id") = FromTheMap(handler[1].args.params, "folder_id")

\* setDns("a.com", { ttl: "300", domain: "b.org" }) has asked for b.org
C28_Witness ==
  /\ method[1].name = "setDns"
  /\ method[1].id = JsStr("a.com")
  /\ method[1].map = JsObj(<<(<<"ttl", JsStr("300")>>), <<"domain", JsStr("b.org")>>>>)
  /\ Len(sent[1]) = 1
  /\ ValuesUnder(sent[1][1], "domain") = <<(<<"domain", "b.org">>)>>

\* ------------------------------------------------------------------------
\* Properties of a wrapper that is not an object
\* ------------------------------------------------------------------------
\* C29: when the value under the first key ending in Response is null, a
\* number, a string or an array, call ends in Success with the whole body:
\* the test of the wrapper neither throws nor finds an error in it.
C29_NonObjectWrapperIsSuccess ==
  \A i \in CallIds :
    (Completed(i) /\ HasWrapper(Json(i)) /\ SelectedWrapper(Json(i)).t # "object") =>
      outcome[i] = Resolved(Json(i))

\* a body whose wrapper is null has been returned whole
C29_Witness ==
  /\ Completed(1)
  /\ HasWrapper(Json(1))
  /\ SelectedWrapper(Json(1)) = JsNull
  /\ outcome[1] = Resolved(Json(1))

\* ------------------------------------------------------------------------
\* Properties of the paging arguments
\* ------------------------------------------------------------------------
Paging(name, v) == IF v = JsUndefined THEN <<>> ELSE <<(<<name, ToString(v.n)>>)>>

\* C30: every request of get_tld_price has the field count_per_page, and the
\* field page_index, with the decimal text of the argument whenever the
\* argument was supplied, 0 included, and has no such field only when the
\* argument was not supplied.
C30_PagingForwarded ==
  Serving("get_tld_price") =>
    \A r \in 1..Len(Requests) :
      /\ ValuesUnder(Requests[r], "count_per_page")
           = Paging("count_per_page", handler[1].args.count_per_page)
      /\ ValuesUnder(Requests[r], "page_index")
           = Paging("page_index", handler[1].args.page_index)

====
